---------------------------- MODULE Spec2Model ----------------------------
(***************************************************************************)
(* Model of the LLM copilot extension (src/src/extension_updated.ts):      *)
(* the provider adapters (GroqProvider, GeminiProvider), the provider      *)
(* selector (LLMFactory.getProvider), the three user actions registered by *)
(* activate (chat, generate workflow diagram, detect patterns) and the two *)
(* response normalizers (diagram clean-up, analysis clean-up and parse).   *)
(*                                                                         *)
(* Text is modelled as a sequence of one-character strings, so that trim,  *)
(* replace, startsWith and JSON.parse are computed character by character. *)
(* JavaScript values are tagged records: [t |-> "undefined"],              *)
(* [t |-> "string", v |-> chars], [t |-> "object", f |-> fields], ...      *)
(***************************************************************************)
EXTENDS Integers, Sequences, FiniteSets, TLC

VARIABLES
    panel,          \* activate's closure variable panel: 0 (undefined) or a panel id
    panels,         \* every webview panel created so far, in order of creation
    notifications,  \* every showErrorMessage / showInformationMessage so far
    reqs,           \* the user actions started so far (one record per action)
    netCalls,       \* outbound calls issued so far (axios.post / generateContent)
    arg,            \* input of the pure function under check (function specifications)
    ret             \* its result

vars == <<panel, panels, notifications, reqs, netCalls, arg, ret>>

-----------------------------------------------------------------------------
(* Bounds of the model *)

\* user actions (chat messages and commands) per behaviour
MaxReq == 2
\* chat panels created per behaviour
MaxChatPanels == 2
\* fragments concatenated into one raw diagram text
MaxFrags == 3
\* messages one chat page posts per behaviour
MaxPosts == 2

-----------------------------------------------------------------------------
(* Text: sequences of characters *)

\* The backquote character (a backquote cannot be written in a string of a
\* module): the one character of the alphabet whose name has several letters.
Tick == "backquote"

WhiteSpace == {" ", "\n", "\t", "\r"}

\* the least element of a non-empty set of integers
Least(S) == CHOOSE i \in S : \A j \in S : i <= j

\* String.prototype.trimStart
TrimStart(s) ==
    LET kept == {i \in 1..Len(s) : s[i] \notin WhiteSpace}
    IN IF kept = {} THEN <<>> ELSE SubSeq(s, Least(kept), Len(s))

\* String.prototype.trimEnd
TrimEnd(s) ==
    LET kept == {i \in 1..Len(s) : s[i] \notin WhiteSpace}
    IN IF kept = {} THEN <<>> ELSE SubSeq(s, 1, CHOOSE i \in kept : \A j \in kept : j <= i)

\* String.prototype.trim
Trim(s) == TrimEnd(TrimStart(s))

\* String.prototype.startsWith
StartsWith(s, p) == Len(s) >= Len(p) /\ SubSeq(s, 1, Len(p)) = p

\* String.prototype.includes
Includes(s, p) ==
    \E i \in 1..(Len(s) - Len(p) + 1) : SubSeq(s, i, i + Len(p) - 1) = p

\* String.prototype.indexOf, counting from 1: the first occurrence of p in s,
\* or 0 when there is none
IndexOf(s, p) ==
    LET at == {i \in 1..(Len(s) - Len(p) + 1) : SubSeq(s, i, i + Len(p) - 1) = p}
    IN IF at = {} THEN 0 ELSE Least(at)

\* s.replace(/p/g, r): every leftmost, non-overlapping occurrence of the
\* literal p is replaced by r in one left-to-right pass
RECURSIVE ReplaceAll(_, _, _)
ReplaceAll(s, p, r) ==
    LET i == IndexOf(s, p)
    IN IF i = 0 THEN s
       ELSE SubSeq(s, 1, i - 1) \o r \o ReplaceAll(SubSeq(s, i + Len(p), Len(s)), p, r)

\* s.replace(/p/g, '')
RemoveAll(s, p) == ReplaceAll(s, p, <<>>)

\* s.replace(/p\s*/g, ''): as RemoveAll, and each occurrence takes the
\* white space that follows it (the greedy \s*)
RECURSIVE RemoveAllWithSpace(_, _)
RemoveAllWithSpace(s, p) ==
    LET i == IndexOf(s, p)
    IN IF i = 0 THEN s
       ELSE SubSeq(s, 1, i - 1)
            \o RemoveAllWithSpace(TrimStart(SubSeq(s, i + Len(p), Len(s))), p)

UpperCase ==
    <<"A","B","C","D","E","F","G","H","I","J","K","L","M",
      "N","O","P","Q","R","S","T","U","V","W","X","Y","Z">>
LowerCase ==
    <<"a","b","c","d","e","f","g","h","i","j","k","l","m",
      "n","o","p","q","r","s","t","u","v","w","x","y","z">>

\* String.prototype.toLowerCase
ToLowerCase(s) ==
    LET LowerChar(c) ==
            IF \E i \in 1..Len(UpperCase) : UpperCase[i] = c
            THEN LowerCase[CHOOSE i \in 1..Len(UpperCase) : UpperCase[i] = c]
            ELSE c
    IN [i \in 1..Len(s) |-> LowerChar(s[i])]

-----------------------------------------------------------------------------
(* JavaScript values *)

Undefined == [t |-> "undefined"]
Null == [t |-> "null"]
Str(s) == [t |-> "string", v |-> s]
\* a number m / 10^e, in lowest terms of e (0.50 and 0.5 are the same value)
Num(m, e) == [t |-> "number", m |-> m, e |-> e]
Bool(b) == [t |-> "boolean", v |-> b]
Arr(a) == [t |-> "array", a |-> a]
Obj(f) == [t |-> "object", f |-> f]
\* an Error object; axios marks its own errors (isAxiosError) and may attach
\* the HTTP response
Err(isAxios, message, response) ==
    [t |-> "error", axios |-> isAxios, message |-> message, response |-> response]
\* the completion of an expression that threw e
Thrown(e) == [t |-> "throw", e |-> e]

TypeError == Err(FALSE, <<"T","y","p","e","E","r","r","o","r">>, Undefined)

IsThrown(v) == v.t = "throw"
Nullish(v) == v.t \in {"undefined", "null"}

\* ToBoolean
Truthy(v) ==
    CASE v.t \in {"undefined", "null"} -> FALSE
      [] v.t = "string" -> v.v # <<>>
      [] v.t = "number" -> v.m # 0
      [] v.t = "boolean" -> v.v
      [] OTHER -> TRUE

\* v.k
Get(v, k) ==
    CASE IsThrown(v) -> v
      [] Nullish(v) -> Thrown(TypeError)
      [] v.t = "object" -> IF k \in DOMAIN v.f THEN v.f[k] ELSE Undefined
      [] v.t = "error" ->
            IF k = "message" THEN Str(v.message)
            ELSE IF k = "response" THEN v.response
            ELSE Undefined
      [] OTHER -> Undefined

\* v?.k
OptGet(v, k) ==
    IF IsThrown(v) THEN v
    ELSE IF Nullish(v) THEN Undefined
    ELSE Get(v, k)

\* v[0]
Index0(v) ==
    CASE IsThrown(v) -> v
      [] Nullish(v) -> Thrown(TypeError)
      [] v.t = "array" -> IF Len(v.a) >= 1 THEN v.a[1] ELSE Undefined
      [] v.t = "string" -> IF Len(v.v) >= 1 THEN Str(<<v.v[1]>>) ELSE Undefined
      [] OTHER -> Undefined

\* v?.trim()
OptTrim(v) ==
    CASE IsThrown(v) -> v
      [] Nullish(v) -> Undefined
      [] v.t = "string" -> Str(Trim(v.v))
      [] OTHER -> Thrown(TypeError)     \* v.trim is not a function

\* a || b
OrElse(a, b) == IF IsThrown(a) THEN a ELSE IF Truthy(a) THEN a ELSE b

\* a template literal ${v}, for the values the adapters interpolate
TemplateText(v) ==
    CASE v.t = "string" -> v.v
      [] v.t = "undefined" -> <<"u","n","d","e","f","i","n","e","d">>
      [] v.t = "null" -> <<"n","u","l","l">>
      [] OTHER -> <<"[","o","b","j","e","c","t"," ","O","b","j","e","c","t","]">>

-----------------------------------------------------------------------------
(* Provider adapters: GroqProvider and GeminiProvider *)

Providers == {"Groq", "Gemini"}

ProviderName(p) ==
    IF p = "Groq" THEN <<"G","r","o","q">> ELSE <<"G","e","m","i","n","i">>

\* the default value of generateResponse's parameter model
DefaultModel(p) ==
    IF p = "Groq"
    THEN <<"l","l","a","m","a","-","3",".","1","-","8","b","-","i","n","s","t","a","n","t">>
    ELSE <<"g","e","m","i","n","i","-","1",".","5","-","p","r","o">>

\* a default parameter value applies when the argument is undefined
ModelOrDefault(p, model) ==
    IF model.t = "undefined" THEN Str(DefaultModel(p)) ELSE model

GroqKeyNotSet ==
    <<"E","r","r","o","r",":"," ","G","r","o","q"," ","A","P","I"," ",
      "K","e","y"," ","i","s"," ","n","o","t"," ","s","e","t",".">>
GeminiKeyNotSet ==
    <<"E","r","r","o","r",":"," ","G","e","m","i","n","i"," ","A","P","I"," ",
      "K","e","y"," ","i","s"," ","n","o","t"," ","s","e","t",".">>
GroqApiError == <<"G","r","o","q"," ","A","P","I"," ","E","r","r","o","r",":"," ">>
GeminiApiError ==
    <<"G","e","m","i","n","i"," ","A","P","I"," ","E","r","r","o","r",":"," ">>
GroqUnknownError ==
    <<"A","n"," ","u","n","k","n","o","w","n"," ","e","r","r","o","r"," ",
      "o","c","c","u","r","r","e","d"," ","w","i","t","h"," ","G","r","o","q",".">>
NoResponseGenerated ==
    <<"N","o"," ","r","e","s","p","o","n","s","e"," ",
      "g","e","n","e","r","a","t","e","d">>

\* What generateResponse's promise settles with. tag records the path taken:
\* "success" (the return inside try), "failure" (the key check or the catch
\* block), "rejected" (an exception left the method); the caller sees text.
Success(text) == [tag |-> "success", text |-> text]
Failure(text) == [tag |-> "failure", text |-> text]
Rejected == [tag |-> "rejected", text |-> <<>>]
NoResult == [tag |-> "none", text |-> <<>>]

\* What the outbound call settles with
Resolve(v) == [k |-> "resolve", v |-> v]
Reject(e) == [k |-> "reject", v |-> e]
NoOutcome == [k |-> "none", v |-> Undefined]

\* response.data.choices[0]?.message?.content?.trim() || 'No response generated'
GroqContent(response) ==
    OrElse(OptTrim(OptGet(OptGet(Index0(Get(Get(response, "data"), "choices")),
                                 "message"), "content")),
           Str(NoResponseGenerated))

\* isAxiosError(error)
isAxiosError(error) == error.t = "error" /\ error.axios

\* GroqCatch with an unknown-error message that does not name the provider
GroqCatch_anonymous(error) ==
    IF isAxiosError(error)
    THEN Failure(GroqApiError \o TemplateText(Get(error, "message")))
    ELSE Failure(<<"A","n"," ","u","n","k","n","o","w","n"," ","e","r","r","o","r"," ",
                   "o","c","c","u","r","r","e","d",".">>)

\* GroqCatch that returns the error's message as it is, without a prefix
GroqCatch_bare(error) ==
    IF isAxiosError(error)
    THEN Failure(TemplateText(OrElse(
                OptGet(OptGet(OptGet(Get(error, "response"), "data"), "error"),
                       "message"),
                Get(error, "message"))))
    ELSE Failure(GroqUnknownError)

\* GroqProvider.generateResponse's catch block
GroqCatch(error) ==
    IF isAxiosError(error)
    THEN Failure(GroqApiError \o
            TemplateText(OrElse(
                OptGet(OptGet(OptGet(Get(error, "response"), "data"), "error"),
                       "message"),
                Get(error, "message"))))
    ELSE Failure(GroqUnknownError)

\* GroqProvider.generateResponse from the await on: the try block and its catch
GroqProvider_settle(outcome) ==
    LET val == IF outcome.k = "resolve" THEN GroqContent(outcome.v)
               ELSE Thrown(outcome.v)
    IN IF IsThrown(val) THEN GroqCatch(val.e) ELSE Success(val.v)

\* GeminiCatch that reports errors with a message and rethrows the others
GeminiCatch_rethrow(error) ==
    IF error.t = "error" THEN Failure(GeminiApiError \o error.message) ELSE Rejected

\* GeminiProvider.generateResponse's catch block
GeminiCatch(error) ==
    LET message == Get(error, "message")
    IN IF IsThrown(message) THEN Rejected
       ELSE Failure(GeminiApiError \o TemplateText(message))

\* GeminiProvider.generateResponse from the await on; the outbound call
\* resolves with what (await result.response).text() returns, a string
GeminiProvider_settle(outcome) ==
    IF outcome.k = "resolve" THEN Success(outcome.v.v) ELSE GeminiCatch(outcome.v)

\* generateResponse_begin with the key check apiKey === undefined
generateResponse_begin_undefined(p, apiKey) ==
    IF apiKey.t = "undefined"
    THEN [stage |-> "done", calls |-> 0,
          result |-> Failure(IF p = "Groq" THEN GroqKeyNotSet ELSE GeminiKeyNotSet)]
    ELSE [stage |-> "await", calls |-> 1, result |-> NoResult]

\* generateResponse_begin that issues the outbound call a second time
generateResponse_begin_retry(p, apiKey) ==
    IF ~Truthy(apiKey)
    THEN [stage |-> "done", calls |-> 0,
          result |-> Failure(IF p = "Groq" THEN GroqKeyNotSet ELSE GeminiKeyNotSet)]
    ELSE [stage |-> "await", calls |-> 2, result |-> NoResult]

\* generateResponse up to its await: the key check, then the one outbound call.
\* calls counts the outbound calls this invocation has issued.
generateResponse_begin(p, apiKey) ==
    IF ~Truthy(apiKey)
    THEN [stage |-> "done", calls |-> 0,
          result |-> Failure(IF p = "Groq" THEN GroqKeyNotSet ELSE GeminiKeyNotSet)]
    ELSE [stage |-> "await", calls |-> 1, result |-> NoResult]

generateResponse_settle(p, outcome) ==
    IF p = "Groq" THEN GroqProvider_settle(outcome) ELSE GeminiProvider_settle(outcome)

-----------------------------------------------------------------------------
(* Provider selector: LLMFactory.getProvider *)

\* The adapter getProvider returns for type, or "TypeError" when
\* type.toLowerCase() throws (type is not a string)
getProvider(type) ==
    IF type.t # "string" THEN "TypeError"
    ELSE LET id == ToLowerCase(type.v)
         IN IF id = <<"g","r","o","q">> THEN "Groq"
            ELSE IF id = <<"g","e","m","i","n","i">> THEN "Gemini"
            ELSE "Groq"

-----------------------------------------------------------------------------
(* Diagram normalization (codesuggestion.generateWorkflowDiagram) *)

FenceMermaid == <<Tick,Tick,Tick,"m","e","r","m","a","i","d">>
Fence == <<Tick,Tick,Tick>>
GraphTD == <<"g","r","a","p","h"," ","T","D">>
GraphLR == <<"g","r","a","p","h"," ","L","R">>

\* sanitizeMermaid with replace patterns without the g flag: the first
\* occurrence only
sanitizeMermaid_first(mermaidSyntax) ==
    LET first(s, p) ==
            IF IndexOf(s, p) = 0 THEN s
            ELSE SubSeq(s, 1, IndexOf(s, p) - 1)
                 \o SubSeq(s, IndexOf(s, p) + Len(p), Len(s))
    IN Trim(first(first(mermaidSyntax, FenceMermaid), Fence))

\* sanitizedResponse
sanitizeMermaid(mermaidSyntax) ==
    Trim(RemoveAll(RemoveAll(mermaidSyntax, FenceMermaid), Fence))

\* isMermaid that accepts a diagram header anywhere in the text
isMermaid_anywhere(sanitizedResponse) ==
    Includes(sanitizedResponse, GraphTD) \/ Includes(sanitizedResponse, GraphLR)

\* the validation guarding the render
isMermaid(sanitizedResponse) ==
    StartsWith(sanitizedResponse, GraphTD) \/ StartsWith(sanitizedResponse, GraphLR)

\* getWebviewContentWithMermaid: the page embeds the diagram text as it is
getWebviewContentWithMermaid(mermaidSyntax) ==
    [doc |-> "mermaid", text |-> mermaidSyntax, message |-> <<>>]

-----------------------------------------------------------------------------
(* JSON.parse, on the JSON grammar without exponents and \u escapes *)

SyntaxError ==
    Err(FALSE, <<"U","n","e","x","p","e","c","t","e","d"," ","t","o","k","e","n">>, Undefined)

\* JSON.parse(text): the value, or the completion that threw a SyntaxError.
\* A recursive-descent reader of the text: each step yields the value read and
\* the position after it, or a failure.
JSONparse(text) ==
    LET
        Digits == <<"0","1","2","3","4","5","6","7","8","9">>
        IsDigit(c) == \E d \in 1..10 : Digits[d] = c
        DigitValue(c) == (CHOOSE d \in 1..10 : Digits[d] = c) - 1

        \* a parse step: the value read and the position after it, or a failure
        Parsed(v, i) == [ok |-> TRUE, v |-> v, i |-> i]
        ParseFail == [ok |-> FALSE, v |-> Undefined, i |-> 0]

        \* the first position from i on that holds no white space
        SkipSpace(s, i) ==
            LET kept == {j \in i..Len(s) : s[j] \notin WhiteSpace}
            IN IF kept = {} THEN Len(s) + 1 ELSE Least(kept)

        At(s, i, c) == i <= Len(s) /\ s[i] = c
        Literal(s, i, w) == i + Len(w) - 1 <= Len(s) /\ SubSeq(s, i, i + Len(w) - 1) = w

        Unescape(c) ==
            CASE c = "n" -> "\n"
              [] c = "t" -> "\t"
              [] c = "r" -> "\r"
              [] OTHER -> c

        RECURSIVE ParseChars(_, _, _)

        \* the character at j ends the run of plain characters read into plain: the
        \* closing quote, an escape, or a character a string cannot hold
        ParseCharsStop(s, j, plain) ==
            IF s[j] = "\"" THEN Parsed(Str(plain), j + 1)
            ELSE IF s[j] = "\\"
                     /\ j + 1 <= Len(s) /\ s[j + 1] \in {"\"", "\\", "/", "n", "t", "r"}
                 THEN ParseChars(s, j + 2, Append(plain, Unescape(s[j + 1])))
            ELSE ParseFail

        ParseCharsTo(s, i, acc, j) == ParseCharsStop(s, j, acc \o SubSeq(s, i, j - 1))

        ParseCharsIn(s, i, acc, stops) ==
            IF stops = {} THEN ParseFail ELSE ParseCharsTo(s, i, acc, Least(stops))

        \* the characters of a string from position i (after the opening quote), acc
        \* read so far: plain characters up to the next quote, escape or control
        \* character
        ParseChars(s, i, acc) ==
            ParseCharsIn(s, i, acc, {j \in i..Len(s) : s[j] \in {"\"", "\\", "\n", "\t", "\r"}})

        \* the end of the run of digits that starts at i
        DigitsEnd(s, i) ==
            LET others == {j \in i..Len(s) : ~IsDigit(s[j])}
            IN IF others = {} THEN Len(s) + 1 ELSE Least(others)

        RECURSIVE DigitsValue(_, _, _, _)
        DigitsValue(s, i, j, acc) ==
            IF i >= j THEN acc ELSE DigitsValue(s, i + 1, j, 10 * acc + DigitValue(s[i]))

        RECURSIVE Normalize(_, _)
        Normalize(m, e) == IF e > 0 /\ m % 10 = 0 THEN Normalize(m \div 10, e - 1) ELSE Num(m, e)

        Negate(neg, n) == IF neg THEN Num(0 - n.m, n.e) ELSE n

        \* the number whose integer digits are s[a..b-1] and, with a fraction, whose
        \* fraction digits are s[b+1..c-1]
        NumberValue(s, a, b, c, hasFrac) ==
            IF hasFrac
            THEN Normalize(DigitsValue(s, b + 1, c, DigitsValue(s, a, b, 0)), c - (b + 1))
            ELSE Num(DigitsValue(s, a, b, 0), 0)

        ParseNumberEnd(s, neg, a, b, hasFrac, c) ==
            IF /\ b > a /\ (s[a] = "0" => b = a + 1)
               /\ hasFrac => c > b + 1
            THEN Parsed(Negate(neg, NumberValue(s, a, b, c, hasFrac)), c)
            ELSE ParseFail

        ParseFraction(s, neg, a, b, hasFrac) ==
            ParseNumberEnd(s, neg, a, b, hasFrac, IF hasFrac THEN DigitsEnd(s, b + 1) ELSE b)

        ParseInt(s, neg, a, b) == ParseFraction(s, neg, a, b, At(s, b, "."))

        ParseSigned(s, neg, a) == ParseInt(s, neg, a, DigitsEnd(s, a))

        \* -? int frac?
        ParseNumber(s, i) == ParseSigned(s, At(s, i, "-"), IF At(s, i, "-") THEN i + 1 ELSE i)

        RECURSIVE ParseValue(_, _)
        RECURSIVE ParseElements(_, _, _)
        RECURSIVE ParseMembers(_, _, _)

        \* r is the element just read: a comma, the closing bracket, or a failure
        ElementsAfter(s, acc, r) ==
            IF ~r.ok THEN ParseFail
            ELSE IF At(s, r.i, ",") THEN ParseElements(s, r.i + 1, Append(acc, r.v))
            ELSE IF At(s, r.i, "]") THEN Parsed(Arr(Append(acc, r.v)), r.i + 1)
            ELSE ParseFail

        \* the elements of an array from position i (after "[" or ","), acc read so far
        ParseElements(s, i, acc) == ElementsAfter(s, acc, ParseValue(s, i))

        \* r is the value just read for key k: a comma, the closing brace, or a
        \* failure; a repeated key keeps its last value
        MembersAfter(s, f, k, r) ==
            IF ~r.ok THEN ParseFail
            ELSE IF At(s, r.i, ",") THEN ParseMembers(s, r.i + 1, (k :> r.v) @@ f)
            ELSE IF At(s, r.i, "}") THEN Parsed(Obj((k :> r.v) @@ f), r.i + 1)
            ELSE ParseFail

        MemberValue(s, f, k, c) ==
            IF At(s, c, ":") THEN MembersAfter(s, f, k, ParseValue(s, c + 1)) ELSE ParseFail

        MemberColon(s, f, key) ==
            IF key.ok THEN MemberValue(s, f, key.v.v, SkipSpace(s, key.i)) ELSE ParseFail

        MemberKey(s, f, j) ==
            IF At(s, j, "\"") THEN MemberColon(s, f, ParseChars(s, j + 1, <<>>)) ELSE ParseFail

        \* the members of an object from position i (after "{" or ","), f read so far
        ParseMembers(s, i, f) == MemberKey(s, f, SkipSpace(s, i))

        \* after "{": the empty object, or its members
        ObjectAt(s, k) ==
            IF At(s, k, "}") THEN Parsed(Obj(<<>>), k + 1) ELSE ParseMembers(s, k, <<>>)

        \* after "[": the empty array, or its elements
        ArrayAt(s, k) ==
            IF At(s, k, "]") THEN Parsed(Arr(<<>>), k + 1) ELSE ParseElements(s, k, <<>>)

        \* the value that starts at position j
        ValueAt(s, j) ==
            IF j > Len(s) THEN ParseFail
            ELSE IF s[j] = "{" THEN ObjectAt(s, SkipSpace(s, j + 1))
            ELSE IF s[j] = "[" THEN ArrayAt(s, SkipSpace(s, j + 1))
            ELSE IF s[j] = "\"" THEN ParseChars(s, j + 1, <<>>)
            ELSE IF Literal(s, j, <<"t","r","u","e">>) THEN Parsed(Bool(TRUE), j + 4)
            ELSE IF Literal(s, j, <<"f","a","l","s","e">>) THEN Parsed(Bool(FALSE), j + 5)
            ELSE IF Literal(s, j, <<"n","u","l","l">>) THEN Parsed(Null, j + 4)
            ELSE ParseNumber(s, j)

        ValueEnd(s, r) == IF r.ok THEN Parsed(r.v, SkipSpace(s, r.i)) ELSE ParseFail

        \* one value with the white space around it, from position i
        ParseValue(s, i) == ValueEnd(s, ValueAt(s, SkipSpace(s, i)))

        ParseEnd(r) ==
            IF r.ok /\ r.i = Len(text) + 1 THEN r.v ELSE Thrown(SyntaxError)
    IN ParseEnd(ParseValue(text, 1))

-----------------------------------------------------------------------------
(* Analysis normalization: analyzeCodePatterns (clean-up and parse check)  *)
(* and getPatternAnalysisWebviewContent (parse, field check, render)       *)

FenceJson == <<Tick,Tick,Tick,"j","s","o","n">>

\* patterns, antiPatterns, recommendations, performance_metrics
RequiredFields ==
    <<<<"p","a","t","t","e","r","n","s">>,
      <<"a","n","t","i","P","a","t","t","e","r","n","s">>,
      <<"r","e","c","o","m","m","e","n","d","a","t","i","o","n","s">>,
      <<"p","e","r","f","o","r","m","a","n","c","e","_","m","e","t","r","i","c","s">>>>

K_potential_bottlenecks ==
    <<"p","o","t","e","n","t","i","a","l","_","b","o","t","t","l","e","n","e","c","k","s">>

InvalidJsonPrefix ==
    <<"I","n","v","a","l","i","d"," ","J","S","O","N"," ","r","e","s","p","o","n","s","e"," ",
      "f","r","o","m"," ","L","L","M",":"," ">>
MissingPropertiesMsg ==
    <<"M","i","s","s","i","n","g"," ","r","e","q","u","i","r","e","d"," ",
      "p","r","o","p","e","r","t","i","e","s"," ","i","n"," ",
      "a","n","a","l","y","s","i","s"," ","r","e","s","u","l","t">>

\* cleanResponse with a trim that removes one white-space character at most
\* from each end
cleanResponse_trimOne(response) ==
    LET chopStart(s) == IF s # <<>> /\ Head(s) \in WhiteSpace THEN Tail(s) ELSE s
        chopEnd(s) == IF s # <<>> /\ s[Len(s)] \in WhiteSpace
                      THEN SubSeq(s, 1, Len(s) - 1) ELSE s
    IN chopEnd(chopStart(RemoveAllWithSpace(RemoveAllWithSpace(response, FenceJson), Fence)))

\* cleanedResponse of analyzeCodePatterns
cleanResponse(response) ==
    Trim(RemoveAllWithSpace(RemoveAllWithSpace(response, FenceJson), Fence))

\* the try block around JSON.parse(cleanedResponse) and its catch
checkedResponse(cleanedResponse, parsed) ==
    IF IsThrown(parsed)
    THEN Thrown(Err(FALSE, InvalidJsonPrefix \o parsed.e.message, Undefined))
    ELSE Str(cleanedResponse)

\* analyzeCodePatterns after its await: the cleaned text, or the completion
\* that threw Error("Invalid JSON response from LLM: ...")
analyzeCodePatterns(response) ==
    checkedResponse(cleanResponse(response), JSONparse(cleanResponse(response)))

\* analysisResult.replace(/</g, '&lt;').replace(/>/g, '&gt;')
EscapeHtml(text) ==
    ReplaceAll(ReplaceAll(text, <<"<">>, <<"&","l","t",";">>), <<">">>, <<"&","g","t",";">>)

\* missingRequired with a check of the severity enumeration added
missingRequired_enum(analysis) ==
    \/ \E i \in 1..Len(RequiredFields) : ~Truthy(Get(analysis, RequiredFields[i]))
    \/ /\ Get(analysis, RequiredFields[2]).t = "array"
       /\ \E i \in 1..Len(Get(analysis, RequiredFields[2]).a) :
             Get(Get(analysis, RequiredFields[2]).a[i], <<"s","e","v","e","r","i","t","y">>)
                \notin {Str(<<"l","o","w">>), Str(<<"m","e","d","i","u","m">>),
                        Str(<<"h","i","g","h">>)}

\* missingRequired without the check of performance_metrics
missingRequired_three(analysis) ==
    \E i \in 1..3 : ~Truthy(Get(analysis, RequiredFields[i]))

\* !analysis.patterns || !analysis.antiPatterns || !analysis.recommendations
\*   || !analysis.performance_metrics
missingRequired(analysis) ==
    \E i \in 1..Len(RequiredFields) : ~Truthy(Get(analysis, RequiredFields[i]))

\* v.map(item => ... item.prop ...) in the report template throws a TypeError
\* unless v is an array without null or undefined elements
MapThrows(v) ==
    \/ v.t # "array"
    \/ \E i \in 1..Len(v.a) : Nullish(v.a[i])

\* The report template throws a TypeError when a section cannot be rendered.
\* potential_bottlenecks.map only interpolates its elements.
renderThrows(analysis) ==
    \/ MapThrows(Get(analysis, RequiredFields[1]))
    \/ MapThrows(Get(analysis, RequiredFields[2]))
    \/ Get(Get(analysis, RequiredFields[4]), K_potential_bottlenecks).t # "array"
    \/ MapThrows(Get(analysis, RequiredFields[3]))

\* the page of the catch block: the error's message and the escaped input
errorPage(error, analysisResult) ==
    [doc |-> "error", message |-> error.message, text |-> EscapeHtml(analysisResult)]

\* the report page, built from the parsed record
reportPage(analysis) ==
    [doc |-> "report", message |-> <<>>, text |-> <<>>, analysis |-> analysis]

\* tryRender with the try block closed before the template: what the template
\* throws leaves the function
tryRender_unguarded(analysis, analysisResult) ==
    IF IsThrown(analysis) THEN errorPage(analysis.e, analysisResult)
    ELSE IF Nullish(analysis) THEN errorPage(TypeError, analysisResult)
    ELSE IF missingRequired(analysis)
         THEN errorPage(Err(FALSE, MissingPropertiesMsg, Undefined), analysisResult)
    ELSE IF renderThrows(analysis) THEN Thrown(TypeError)
    ELSE reportPage(analysis)

\* the try block from the field check on, and the catch block
tryRender(analysis, analysisResult) ==
    IF IsThrown(analysis) THEN errorPage(analysis.e, analysisResult)
    ELSE IF Nullish(analysis) THEN errorPage(TypeError, analysisResult)
    ELSE IF missingRequired(analysis)
         THEN errorPage(Err(FALSE, MissingPropertiesMsg, Undefined), analysisResult)
    ELSE IF renderThrows(analysis) THEN errorPage(TypeError, analysisResult)
    ELSE reportPage(analysis)

getPatternAnalysisWebviewContent(analysisResult) ==
    tryRender(JSONparse(Trim(analysisResult)), analysisResult)

-----------------------------------------------------------------------------
(* Inputs: what configuration holds and what the outbound calls settle with *)

\* codeAssistant.<provider>.apiKey: not set, set to the empty string, set
ApiKeys == {Undefined, Str(<<>>), Str(<<"k">>)}

DiagramFenced ==
    <<Tick,Tick,Tick,"m","e","r","m","a","i","d","\n",
      "g","r","a","p","h"," ","T","D","\n","A","-","-",">","B","\n",Tick,Tick,Tick>>
DiagramPlain == <<"g","r","a","p","h"," ","T","D","\n","A","-","-",">","B">>
DiagramWrongPrefix == <<"g","r","a","p","h"," ","X","Y","\n","A","-","-",">","B">>
DiagramLate ==
    <<"S","u","r","e",":","\n","g","r","a","p","h"," ","T","D","\n","A","-","-",">","B">>

\* texts a model answers with
ContentTexts ==
    {<<>>, <<" ">>, <<"\n","\t">>, <<"o","k">>, <<" ","h","i","\n">>,
     DiagramFenced, DiagramLate}

Content(text) ==
    Obj([choices |-> Arr(<<Obj([message |-> Obj([content |-> Str(text)])])>>)])

\* response.data of a Groq answer with HTTP status 2xx
GroqPayloads ==
    {Content(text) : text \in ContentTexts} \cup
    {Obj(<<>>),                                             \* no choices
     Obj([choices |-> Null]),
     Obj([choices |-> Arr(<<>>)]),                          \* choices empty
     Obj([choices |-> Arr(<<Obj(<<>>)>>)]),                 \* no message
     Obj([choices |-> Arr(<<Obj([message |-> Obj(<<>>)])>>)]),              \* no content
     Obj([choices |-> Arr(<<Obj([message |-> Obj([content |-> Null])])>>)]),
     Obj([choices |-> Arr(<<Obj([message |-> Obj([content |-> Num(7, 0)])])>>)]),
     Str(<<"<","h","t","m","l",">">>),
     Null}

MsgStatus ==
    <<"R","e","q","u","e","s","t"," ","f","a","i","l","e","d"," ","w","i","t","h"," ",
      "s","t","a","t","u","s"," ","c","o","d","e"," ","4","0","1">>
MsgInvalidKey == <<"I","n","v","a","l","i","d"," ","A","P","I"," ","K","e","y">>
MsgNetwork == <<"N","e","t","w","o","r","k"," ","E","r","r","o","r">>
MsgFetch == <<"f","e","t","c","h"," ","f","a","i","l","e","d">>

\* what axios.post rejects with: an HTTP error whose body reports the provider's
\* error, an HTTP error with another body, a transport error without response,
\* an exception that is not an axios error, and a thrown value that is no
\* Error object; the provider's error message may be any text, a diagram too
GroqOutcomes ==
    {Resolve(Obj([data |-> d])) : d \in GroqPayloads} \cup
    {Reject(e) : e \in
     {Err(TRUE, MsgStatus, Obj([data |-> Obj([error |-> Obj([message |-> Str(MsgInvalidKey)])])])),
      Err(TRUE, MsgStatus, Obj([data |-> Obj([error |-> Obj([message |-> Str(DiagramPlain)])])])),
     Err(TRUE, MsgStatus, Obj([data |-> Str(<<"<","h","t","m","l",">">>)])),
     Err(TRUE, MsgNetwork, Undefined),
     Err(FALSE, MsgFetch, Undefined),
     Str(MsgFetch)}}

\* generateContent followed by response.text(): the text, or the Error either throws
GeminiOutcomes ==
    {Resolve(Str(text)) : text \in ContentTexts} \cup
    {Reject(Err(FALSE, MsgFetch, Undefined)), Reject(Err(FALSE, MsgInvalidKey, Undefined)),
     Reject(Err(FALSE, <<"{","}">>, Undefined)), Reject(Str(MsgFetch))}

Outcomes(p) == IF p = "Groq" THEN GroqOutcomes ELSE GeminiOutcomes

\* the successful outcomes without a recognizable content: for Groq, choices
\* missing or empty, message or content missing, content empty or white space;
\* for Gemini, the empty text

NoContentOutcomes(p) ==
    IF p = "Groq"
    THEN {Resolve(Obj([data |-> d])) : d \in
            {Obj(<<>>),
             Obj([choices |-> Arr(<<>>)]),
             Obj([choices |-> Arr(<<Obj(<<>>)>>)]),
             Obj([choices |-> Arr(<<Obj([message |-> Obj(<<>>)])>>)])}
            \cup {Content(text) : text \in {t \in ContentTexts : Trim(t) = <<>>}}}
    ELSE {Resolve(Str(<<>>))}

-----------------------------------------------------------------------------
(* The state of the extension after activate, and of a function check *)

NotRun == [stage |-> "idle"]

ExtensionIdle ==
    /\ panel = 0
    /\ panels = <<>>
    /\ notifications = <<>>
    /\ reqs = <<>>
    /\ netCalls = 0

ExtensionUnchanged == UNCHANGED <<panel, panels, notifications, reqs>>

-----------------------------------------------------------------------------
(* SpecAdapter: one invocation of an adapter's generateResponse, for every *)
(* provider, key, model id and outcome of the outbound call                *)

InitAdapter ==
    /\ ExtensionIdle
    /\ arg \in [provider : Providers, apiKey : ApiKeys,
                model : {Undefined,
                         Str(<<"g","e","m","m","a","2","-","9","b","-","i","t">>),
                         Str(<<"g","e","m","i","n","i","-","1",".","5","-",
                               "f","l","a","s","h">>)}]
    /\ ret = NotRun

\* generateResponse is called and runs up to its await (or returns at the key check)
AdapterBegin ==
    /\ ret.stage = "idle"
    /\ LET inv == generateResponse_begin(arg.provider, arg.apiKey)
       IN /\ ret' = [stage |-> inv.stage, calls |-> inv.calls, result |-> inv.result,
                     outcome |-> NoOutcome,
                     model |-> ModelOrDefault(arg.provider, arg.model)]
          /\ netCalls' = netCalls + inv.calls
    /\ UNCHANGED arg
    /\ ExtensionUnchanged

\* the outbound call settles and generateResponse runs to its return
AdapterSettle ==
    /\ ret.stage = "await"
    /\ \E outcome \in Outcomes(arg.provider) :
          ret' = [ret EXCEPT !.stage = "done",
                             !.outcome = outcome,
                             !.result = generateResponse_settle(arg.provider, outcome)]
    /\ UNCHANGED <<arg, netCalls>>
    /\ ExtensionUnchanged

NextAdapter == AdapterBegin \/ AdapterSettle

SpecAdapter == InitAdapter /\ [][NextAdapter]_vars

-----------------------------------------------------------------------------
(* SpecFactory: LLMFactory.getProvider applied to every identifier a       *)
(* caller can pass: message.provider of a chat message, or the activeModel *)
(* setting                                                                 *)

\* every way of writing word in upper and lower case
CaseVariants(word) ==
    LET UpperChar(c) ==
            IF \E i \in 1..Len(LowerCase) : LowerCase[i] = c
            THEN UpperCase[CHOOSE i \in 1..Len(LowerCase) : LowerCase[i] = c]
            ELSE c
    IN {[i \in 1..Len(word) |-> IF up[i] THEN UpperChar(word[i]) ELSE word[i]] :
           up \in [1..Len(word) -> BOOLEAN]}

IdGroq == <<"g","r","o","q">>
IdGemini == <<"g","e","m","i","n","i">>

\* an absent identifier is the value undefined
Identifiers ==
    {Str(id) : id \in CaseVariants(IdGroq) \cup CaseVariants(IdGemini) \cup
        {<<>>, <<"g","p","t">>, <<"o","p","e","n","a","i">>,
         <<" ","g","r","o","q"," ">>, <<"g","e","m","i","n","i"," ">>}}
    \cup {Undefined}

InitFactory ==
    /\ ExtensionIdle
    /\ arg \in Identifiers
    /\ ret = NotRun

SelectProvider ==
    /\ ret.stage = "idle"
    /\ ret' = [stage |-> "done", out |-> getProvider(arg)]
    /\ UNCHANGED <<arg, netCalls>>
    /\ ExtensionUnchanged

SpecFactory == InitFactory /\ [][SelectProvider]_vars

-----------------------------------------------------------------------------
(* SpecDiagram: the diagram clean-up and check applied to raw texts built  *)
(* from fences, white space, diagram headers and diagram bodies            *)

DiagramFragments ==
    {Fence, FenceMermaid, <<Tick>>, <<"\n">>, <<" ">>, GraphTD, GraphLR,
     <<"g","r","a","p","h"," ","X","Y">>, <<"m","e","r","m","a","i","d">>,
     <<"A","-","-",">","B">>}

RECURSIVE Concats(_)
Concats(n) ==
    IF n = 0 THEN {<<>>}
    ELSE LET shorter == Concats(n - 1)
         IN shorter \cup {s \o f : s \in shorter, f \in DiagramFragments}

InitDiagram ==
    /\ ExtensionIdle
    /\ arg \in Concats(MaxFrags)
              \cup {DiagramFenced, DiagramPlain, DiagramWrongPrefix, DiagramLate}
    /\ ret = NotRun

\* lines 164-177: clean up the raw text, then accept or reject it
NormalizeDiagram ==
    /\ ret.stage = "idle"
    /\ LET sanitizedResponse == sanitizeMermaid(arg)
       IN ret' = [stage |-> "done", text |-> sanitizedResponse,
                  ok |-> isMermaid(sanitizedResponse)]
    /\ UNCHANGED <<arg, netCalls>>
    /\ ExtensionUnchanged

SpecDiagram == InitDiagram /\ [][NormalizeDiagram]_vars

-----------------------------------------------------------------------------
(* SpecAnalysis: getPatternAnalysisWebviewContent applied to JSON records  *)
(* that hold any subset of the four required fields, and to other texts    *)

Quote(text) == <<"\"">> \o text \o <<"\"">>
Member(key, value) == Quote(key) \o <<":">> \o value

RECURSIVE Join(_)
Join(members) ==
    IF members = <<>> THEN <<>>
    ELSE IF Len(members) = 1 THEN Head(members)
    ELSE Head(members) \o <<",">> \o Join(Tail(members))

\* the texts a field's value is drawn from, per required field
EmptyArray == <<"[","]">>
FieldValues ==
    <<{EmptyArray, Quote(<<"m","a","n","y">>),
       <<"[","{">> \o Member(<<"n","a","m","e">>, Quote(<<"L","i","s","t","<","T",">">>))
          \o <<",">> \o Member(<<"c","o","n","f","i","d","e","n","c","e">>, <<"1",".","5">>)
          \o <<"}","]">>},
      {EmptyArray, <<"[","n","u","l","l","]">>,
       <<"[","{">> \o Member(<<"s","e","v","e","r","i","t","y">>, Quote(<<"d","i","r","e">>))
          \o <<"}","]">>},
      {EmptyArray, <<"n","u","l","l">>,
       <<"[","{">> \o Member(<<"c","o","m","p","l","e","x","i","t","y">>,
                             Quote(<<"e","x","t","r","e","m","e">>))
          \o <<",">> \o Member(<<"p","e","r","f","o","r","m","a","n","c","e","_",
                                  "i","m","p","a","c","t">>, Quote(<<"n","o","n","e">>))
          \o <<"}","]">>},
      {<<"{">> \o Member(K_potential_bottlenecks, EmptyArray) \o <<"}">>,
       <<"{","}">>}>>

\* the members of a record that holds the fields of present, in schema order
RECURSIVE Members(_, _, _)
Members(i, present, value) ==
    IF i > Len(RequiredFields) THEN <<>>
    ELSE (IF i \in present THEN <<Member(RequiredFields[i], value[i])>> ELSE <<>>)
         \o Members(i + 1, present, value)

\* a record: its text, the required fields it holds, and whether the text
\* differs from its trimmed form
Records ==
    {[text |-> pad[1] \o <<"{">> \o Join(Members(1, present, value)) \o <<"}">> \o pad[2],
      kind |-> "record", present |-> present] :
        present \in SUBSET (1..Len(RequiredFields)),
        value \in FieldValues[1] \X FieldValues[2] \X FieldValues[3] \X FieldValues[4],
        pad \in {<<<<>>, <<>>>>, <<<<" ">>, <<"\n">>>>}}

\* texts that are no record: not JSON, JSON null, a scalar, an array
OtherTexts ==
    {[text |-> t, kind |-> "other", present |-> {}] :
        t \in {<<>>, <<"n","u","l","l">>, <<"4","2">>, <<"[","]">>,
               <<"{","\"","p","a","t","t","e","r","n","s","\"",":","[","}">>,
               DiagramPlain}}

InitAnalysis ==
    /\ ExtensionIdle
    /\ arg \in Records \cup OtherTexts
    /\ ret = NotRun

RenderAnalysis ==
    /\ ret.stage = "idle"
    /\ ret' = [stage |-> "done", page |-> getPatternAnalysisWebviewContent(arg.text)]
    /\ UNCHANGED <<arg, netCalls>>
    /\ ExtensionUnchanged

SpecAnalysis == InitAnalysis /\ [][RenderAnalysis]_vars

-----------------------------------------------------------------------------
(* Spec: the extension. The user opens and closes the chat panel, sends    *)
(* chat messages and runs the two commands; outbound calls settle in any   *)
(* order. A handler runs from an event to its await, or to its end, in one *)
(* step: between two awaits nothing else runs.                             *)

\* the chat page's models object: the model ids of a provider, in the order
\* of the list
models(provider) ==
    IF provider = IdGroq
    THEN <<Str(DefaultModel("Groq")),
           Str(<<"l","l","a","m","a","-","3",".","1","-","4","0","5","b","-",
                 "r","e","a","s","o","n","i","n","g">>),
           Str(<<"g","e","m","m","a","2","-","9","b","-","i","t">>)>>
    ELSE <<Str(DefaultModel("Gemini")),
           Str(<<"g","e","m","i","n","i","-","1",".","5","-","f","l","a","s","h">>)>>

\* models of the chat page (the script's models object)
ChatModels(id) == {models(id)[n] : n \in 1..Len(models(id))}

\* values of the provider select of the chat page
ChatProviders == {IdGroq, IdGemini}

\* values of the activeModel setting; get('activeModel', 'groq') yields
\* 'groq' when it is not set
ActiveModels == {IdGroq, IdGemini, <<"G","e","m","i","n","i">>, <<"g","p","t">>}

\* the editor when a command runs: none, one with an empty selection, one
\* with selected code
Editors == {"none", "empty", "code"}

AnalysisFull ==
    <<"{">> \o Join(Members(1, 1..4,
        <<EmptyArray, EmptyArray, EmptyArray,
          <<"{">> \o Member(K_potential_bottlenecks, EmptyArray) \o <<"}">>>>)) \o <<"}">>
AnalysisFenced == FenceJson \o <<"\n">> \o AnalysisFull \o <<"\n">> \o Fence
AnalysisNoMetrics ==
    <<"{">> \o Join(Members(1, 1..3, <<EmptyArray, EmptyArray, EmptyArray, <<>>>>)) \o <<"}">>
AnalysisMalformed == <<"{","\"","p","a","t","t","e","r","n","s","\"",":","[","}">>

\* the texts a model answers a user action with
ActionTexts(kind) ==
    CASE kind = "chat" -> {<<>>, <<"o","k">>}
      [] kind = "diagram" -> {DiagramFenced, DiagramLate}
      [] kind = "detect" -> {AnalysisFenced, AnalysisNoMetrics, AnalysisMalformed}

\* what the outbound call of a user action settles with
ActionOutcomes(kind, p) ==
    IF p = "Groq"
    THEN {Resolve(Obj([data |-> Content(text)])) : text \in ActionTexts(kind)}
         \cup {Reject(Err(TRUE, MsgNetwork, Undefined))}
    ELSE {Resolve(Str(text)) : text \in ActionTexts(kind)}
         \cup {Reject(Err(FALSE, MsgFetch, Undefined))}

NoPage == [doc |-> "none", message |-> <<>>, text |-> <<>>]
ChatPage == [doc |-> "chat", message |-> <<>>, text |-> <<>>]

\* createWebviewPanel(viewType, ...) for user action req (0: the open-chat command)
NewPanel(viewType, req, html) ==
    [viewType |-> viewType, req |-> req, html |-> html, live |-> TRUE, posted |-> <<>>]

\* showErrorMessage / showInformationMessage
Notice(req, level, id, detail) ==
    [req |-> req, level |-> level, id |-> id, detail |-> detail]

SorryText ==
    <<"S","o","r","r","y",","," ","I"," ","c","o","u","l","d","n","'","t"," ",
      "g","e","t"," ","a"," ","r","e","s","p","o","n","s","e",".">>

\* FinishChat that posts the response as it is, without the substitute for an
\* empty text
FinishChat_raw(i, result, cur, ps, ns) ==
    IF result.tag = "rejected"
    THEN [stage |-> "failed", panels |-> ps, notifications |-> ns]
    ELSE [stage |-> "done",
          panels |-> IF cur = 0 THEN ps
                     ELSE [ps EXCEPT ![cur].posted =
                             Append(@, [req |-> i, text |-> result.text])],
          notifications |-> ns]

\* A rejected generateResponse (the thrown value has no readable message)
\* ends a handler with no further effect: the commands' catch blocks read
\* the same message.
\* the rest of the chat message handler once generateResponse has settled:
\* panel?.webview.postMessage({command: 'receiveMessage', text: response || ...})
FinishChat(i, result, cur, ps, ns) ==
    IF result.tag = "rejected"
    THEN [stage |-> "failed", panels |-> ps, notifications |-> ns]
    ELSE [stage |-> "done",
          panels |-> IF cur = 0 THEN ps
                     ELSE [ps EXCEPT ![cur].posted =
                             Append(@, [req |-> i,
                                        text |-> IF result.text = <<>> THEN SorryText
                                                 ELSE result.text])],
          notifications |-> ns]

\* FinishDiagram for a command that validates the text before it creates its
\* panel: a text that is no diagram leaves no panel
FinishDiagram_validateFirst(i, result, ps, ns) ==
    IF result.tag = "rejected"
    THEN [stage |-> "failed", panels |-> ps, notifications |-> ns]
    ELSE IF ~isMermaid(sanitizeMermaid(result.text))
         THEN [stage |-> "done", panels |-> ps,
               notifications |-> Append(ns, Notice(i, "error", "InvalidMermaid", <<>>))]
         ELSE [stage |-> "done",
               panels |-> Append(ps, NewPanel("workflowDiagram", i,
                             getWebviewContentWithMermaid(sanitizeMermaid(result.text)))),
               notifications |-> ns]

\* the rest of codesuggestion.generateWorkflowDiagram (lines 152-182)
FinishDiagram(i, result, ps, ns) ==
    IF result.tag = "rejected"
    THEN [stage |-> "failed", panels |-> ps, notifications |-> ns]
    ELSE LET sanitizedResponse == sanitizeMermaid(result.text)
         IN IF ~isMermaid(sanitizedResponse)
            THEN [stage |-> "done",
                  panels |-> Append(ps, NewPanel("workflowDiagram", i, NoPage)),
                  notifications |-> Append(ns, Notice(i, "error", "InvalidMermaid", <<>>))]
            ELSE [stage |-> "done",
                  panels |-> Append(ps, NewPanel("workflowDiagram", i,
                                getWebviewContentWithMermaid(sanitizedResponse))),
                  notifications |-> ns]

\* the rest of codesuggestion.detectPatterns once analyzeCodePatterns has
\* returned or thrown (lines 212-227)
ShowAnalysis(i, analysisResult, ps, ns) ==
    IF IsThrown(analysisResult)
    THEN [stage |-> "done", panels |-> ps,
          notifications |->
             Append(ns, Notice(i, "error", "ErrorAnalyzing", analysisResult.e.message))]
    ELSE [stage |-> "done",
          panels |-> Append(ps, NewPanel("patternDetector", i,
                        getPatternAnalysisWebviewContent(analysisResult.v))),
          notifications |-> ns]

\* the rest of codesuggestion.detectPatterns with the rest of
\* analyzeCodePatterns (lines 591-603)
FinishDetect(i, result, ps, ns) ==
    IF result.tag = "rejected"
    THEN [stage |-> "failed", panels |-> ps, notifications |-> ns]
    ELSE ShowAnalysis(i, analyzeCodePatterns(result.text), ps, ns)

Finish(i, kind, result, cur, ps, ns) ==
    CASE kind = "chat" -> FinishChat(i, result, cur, ps, ns)
      [] kind = "diagram" -> FinishDiagram(i, result, ps, ns)
      [] kind = "detect" -> FinishDetect(i, result, ps, ns)

\* a user action that got as far as calling generateResponse: inv is the
\* invocation up to its await
Started(kind, p, origin, model, inv) ==
    [kind |-> kind, stage |-> inv.stage, adapter |-> p, origin |-> origin,
     model |-> model, invoked |-> 1, calls |-> inv.calls,
     outcome |-> NoOutcome, result |-> inv.result]

\* Stopped for a command that reads activeModel and calls getProvider before
\* it checks its preconditions
Stopped_selected(kind, stage, origin) ==
    [kind |-> kind, stage |-> stage, adapter |-> getProvider(Str(IdGroq)), origin |-> origin,
     model |-> Undefined, invoked |-> 0, calls |-> 0,
     outcome |-> NoOutcome, result |-> NoResult]

\* a command that stopped at a precondition, or a handler that threw before
\* it reached the adapter
Stopped(kind, stage, origin) ==
    [kind |-> kind, stage |-> stage, adapter |-> "none", origin |-> origin,
     model |-> Undefined, invoked |-> 0, calls |-> 0,
     outcome |-> NoOutcome, result |-> NoResult]

\* the handler of user action req ran to its end
Ended(req, end) ==
    /\ reqs' = Append(reqs, [req EXCEPT !.stage = end.stage])
    /\ panels' = end.panels
    /\ notifications' = end.notifications

\* inv is generateResponse up to its await; the model id goes out with the
\* outbound call
Invoked(kind, p, origin, model, ns, inv) ==
    /\ netCalls' = netCalls + inv.calls
    /\ IF inv.stage = "await"
       THEN /\ reqs' = Append(reqs, Started(kind, p, origin, ModelOrDefault(p, model), inv))
            /\ panels' = panels
            /\ notifications' = ns
       ELSE Ended(Started(kind, p, origin, Undefined, inv),
                  Finish(Len(reqs) + 1, kind, inv.result, panel, panels, ns))

\* The handler calls generateResponse of adapter p: the call returns at the
\* key check and the handler runs on to its end, or it issues the outbound
\* call and the handler waits.
Invoke(kind, p, origin, model, ns) ==
    \E apiKey \in ApiKeys :
        Invoked(kind, p, origin, model, ns, generateResponse_begin(p, apiKey))

Init ==
    /\ ExtensionIdle
    /\ arg = NotRun
    /\ ret = NotRun

\* OpenChat without the test of panel: every command creates a panel
OpenChat_always ==
    /\ Cardinality({k \in 1..Len(panels) : panels[k].viewType = "codeChat"}) < MaxChatPanels
    /\ panels' = Append(panels, NewPanel("codeChat", 0, ChatPage))
    /\ panel' = Len(panels) + 1
    /\ UNCHANGED <<notifications, reqs, netCalls, arg, ret>>

\* codesuggestion.getCode: reveal the chat panel, or create it
OpenChat ==
    /\ IF panel # 0
       THEN UNCHANGED <<panel, panels>>
       ELSE /\ Cardinality({k \in 1..Len(panels) : panels[k].viewType = "codeChat"})
                  < MaxChatPanels
            /\ panels' = Append(panels, NewPanel("codeChat", 0, ChatPage))
            /\ panel' = Len(panels) + 1
    /\ UNCHANGED <<notifications, reqs, netCalls, arg, ret>>

\* the user closes the chat panel: onDidDispose
DisposeChat ==
    /\ panel # 0
    /\ panels' = [panels EXCEPT ![panel].live = FALSE]
    /\ panel' = 0
    /\ UNCHANGED <<notifications, reqs, netCalls, arg, ret>>

\* The chat page posts sendMessage and the handler of lines 98-109 runs, the
\* message's provider being one of providers. getProvider is called outside
\* any try block: when it throws, the handler's promise is rejected.
SendMessageOf(providers) ==
    /\ Len(reqs) < MaxReq
    /\ panel # 0
    /\ \E provider \in providers :
       \E model \in ChatModels(IF provider = Str(IdGroq) THEN IdGroq ELSE IdGemini) :
          IF getProvider(provider) = "TypeError"
          THEN /\ reqs' = Append(reqs, Stopped("chat", "failed", panel))
               /\ UNCHANGED <<panels, notifications, netCalls>>
          ELSE Invoke("chat", getProvider(provider), panel, model, notifications)
    /\ UNCHANGED <<panel, arg, ret>>

SendMessage == SendMessageOf({Str(id) : id \in ChatProviders})

\* codesuggestion.generateWorkflowDiagram, the activeModel setting being one
\* of providerTypes. getProvider is called before the try block (line 135):
\* when it throws, the command's promise is rejected.
GenerateDiagramWith(providerTypes) ==
    /\ Len(reqs) < MaxReq
    /\ \E editor \in Editors :
          IF editor # "code"
          THEN /\ reqs' = Append(reqs, Stopped("diagram", "aborted", 0))
               /\ notifications' =
                     Append(notifications,
                            Notice(Len(reqs) + 1, "error",
                                   IF editor = "none" THEN "NoEditor" ELSE "NoSelection", <<>>))
               /\ UNCHANGED <<panels, netCalls>>
          ELSE \E providerType \in providerTypes :
                  IF getProvider(providerType) = "TypeError"
                  THEN /\ reqs' = Append(reqs, Stopped("diagram", "failed", 0))
                       /\ UNCHANGED <<panels, notifications, netCalls>>
                  ELSE Invoke("diagram", getProvider(providerType), 0, Undefined,
                              notifications)
    /\ UNCHANGED <<panel, arg, ret>>

GenerateDiagram == GenerateDiagramWith({Str(id) : id \in ActiveModels})

\* codesuggestion.detectPatterns, the activeModel setting being one of
\* providerTypes. getProvider is called inside the try block (lines 206-209):
\* what it throws is caught at lines 222-226.
DetectPatternsWith(providerTypes) ==
    /\ Len(reqs) < MaxReq
    /\ \E editor \in Editors :
          IF editor # "code"
          THEN /\ reqs' = Append(reqs, Stopped("detect", "aborted", 0))
               /\ notifications' =
                     Append(notifications,
                            Notice(Len(reqs) + 1, "error",
                                   IF editor = "none" THEN "NoEditor" ELSE "NoSelection", <<>>))
               /\ UNCHANGED <<panels, netCalls>>
          ELSE \E providerType \in providerTypes :
                  IF getProvider(providerType) = "TypeError"
                  THEN /\ reqs' = Append(reqs, Stopped("detect", "done", 0))
                       /\ notifications' =
                             notifications
                             \o <<Notice(Len(reqs) + 1, "info", "Analyzing", <<>>),
                                  Notice(Len(reqs) + 1, "error", "ErrorAnalyzing",
                                         TypeError.message)>>
                       /\ UNCHANGED <<panels, netCalls>>
                  ELSE Invoke("detect", getProvider(providerType), 0, Undefined,
                              Append(notifications,
                                     Notice(Len(reqs) + 1, "info", "Analyzing", <<>>)))
    /\ UNCHANGED <<panel, arg, ret>>

DetectPatterns == DetectPatternsWith({Str(id) : id \in ActiveModels})

\* Settled for calls that cancel each other: the requests still waiting are
\* dropped when a call settles
Settled_cancel(i, outcome, result, end) ==
    /\ reqs' = [j \in 1..Len(reqs) |->
                  IF j = i THEN [reqs[j] EXCEPT !.stage = end.stage,
                                                !.outcome = outcome,
                                                !.result = result]
                  ELSE IF reqs[j].stage = "await" THEN [reqs[j] EXCEPT !.stage = "failed"]
                  ELSE reqs[j]]
    /\ panels' = end.panels
    /\ notifications' = end.notifications

\* generateResponse of user action i returned result and its caller ran to end
Settled(i, outcome, result, end) ==
    /\ reqs' = [reqs EXCEPT ![i].stage = end.stage,
                            ![i].outcome = outcome,
                            ![i].result = result]
    /\ panels' = end.panels
    /\ notifications' = end.notifications

Resume(i, outcome, result) ==
    Settled(i, outcome, result,
            Finish(i, reqs[i].kind, result, panel, panels, notifications))

\* an outbound call settles: generateResponse returns and its caller runs on
\* to its end
Settle ==
    /\ \E i \in 1..Len(reqs) :
          /\ reqs[i].stage = "await"
          /\ \E outcome \in ActionOutcomes(reqs[i].kind, reqs[i].adapter) :
                Resume(i, outcome, generateResponse_settle(reqs[i].adapter, outcome))
    /\ UNCHANGED <<panel, netCalls, arg, ret>>

Next ==
    \/ OpenChat
    \/ DisposeChat
    \/ SendMessage
    \/ GenerateDiagram
    \/ DetectPatterns
    \/ Settle

Spec == Init /\ [][Next]_vars

\* SpecLive: the extension when every outbound call settles: the HTTP client
\* resolves or rejects the promise of each request (response, error status,
\* network failure) and the event loop then runs the continuation of the
\* handler that awaits it. This is weak fairness of Settle with its enabling
\* condition written out: Settle can be taken exactly when some request
\* waits for its call.
SpecLive ==
    /\ Spec
    /\ \/ []<>(\A i \in 1..Len(reqs) : reqs[i].stage # "await")
       \/ []<><<Settle>>_vars

\* SpecAnyId: the extension when the identifier handed to getProvider can also
\* be no string: a message without a provider field, an activeModel setting
\* that holds no string
AnyIdentifiers == {Str(IdGroq), Str(IdGemini), Undefined}

NextAnyId ==
    \/ OpenChat
    \/ DisposeChat
    \/ SendMessageOf(AnyIdentifiers)
    \/ GenerateDiagramWith(AnyIdentifiers)
    \/ DetectPatternsWith(AnyIdentifiers)
    \/ Settle

SpecAnyId == Init /\ [][NextAnyId]_vars

-----------------------------------------------------------------------------
(* Properties of the adapters, checked under SpecAdapter *)

\* C1: every invocation of generateResponse that has returned, whatever the
\* key, the model id and the outcome of the outbound call, resolved to a text
\* (the return of the try block, of the key check or of the catch block); none
\* rejected.
C1_AlwaysResolves ==
    ret.stage = "done" =>
        /\ ret.result.tag \in {"success", "failure"}
        /\ ret.result.text = [i \in 1..Len(ret.result.text) |-> ret.result.text[i]]

\* C1, its case: the outbound call was rejected with a value that is no axios
\* error and generateResponse has returned.
C1_Witness ==
    /\ ret.stage = "done"
    /\ ret.outcome.k = "reject"
    /\ ~isAxiosError(ret.outcome.v)

\* C2: with the key undefined or empty, generateResponse returns a Failure
\* text that contains "<Provider> API Key is not set." and the invocation
\* issues no outbound call.
C2_NoKeyNoCall ==
    (ret.stage # "idle" /\ ~Truthy(arg.apiKey)) =>
        /\ ret.stage = "done"
        /\ ret.result.tag = "failure"
        /\ Includes(ret.result.text,
                    ProviderName(arg.provider)
                    \o <<" ","A","P","I"," ","K","e","y"," ","i","s"," ","n","o","t"," ",
                         "s","e","t",".">>)
        /\ ret.calls = 0
        /\ netCalls = 0
        /\ ret.outcome = NoOutcome

\* C2, its case: the Gemini adapter was invoked with the key set to the empty
\* string.
C2_Witness ==
    /\ ret.stage = "done"
    /\ arg.provider = "Gemini"
    /\ arg.apiKey = Str(<<>>)

\* C3 as stated: every Failure text begins with the provider's name.
C3_PrefixedWithName ==
    (ret.stage = "done" /\ ret.result.tag = "failure") =>
        StartsWith(ret.result.text, ProviderName(arg.provider))

\* C3 amended: every Failure text contains the provider's name, and it begins
\* with the name exactly when it reports an API error ("<Provider> API Error:
\* ..."); the missing-key text begins with "Error: " and Groq's text for a
\* value that is no axios error begins with "An unknown error".
C3_ContainsName ==
    (ret.stage = "done" /\ ret.result.tag = "failure") =>
        /\ Includes(ret.result.text, ProviderName(arg.provider))
        /\ StartsWith(ret.result.text, ProviderName(arg.provider)) <=>
              /\ ret.calls = 1
              /\ \/ arg.provider = "Gemini"
                 \/ ret.outcome.k = "reject" /\ isAxiosError(ret.outcome.v)

\* C3, its case: the Groq adapter read a successful payload of a shape it does
\* not expect and returned the unknown-error text.
C3_Witness ==
    /\ ret.stage = "done"
    /\ ret.outcome.k = "resolve"
    /\ ret.result = Failure(GroqUnknownError)

\* C5 as stated: a successful payload without recognizable content makes the
\* adapter return Success("No response generated").
C5_FallbackForNoContent ==
    (ret.stage = "done" /\ ret.outcome \in NoContentOutcomes(arg.provider)) =>
        ret.result = Success(NoResponseGenerated)

\* C6 as stated: the text of a Success neither starts nor ends with white space.
C6_SuccessTrimmed ==
    (ret.stage = "done" /\ ret.result.tag = "success") =>
        ret.result.text = Trim(ret.result.text)

-----------------------------------------------------------------------------
(* Properties of the provider selector, checked under SpecFactory *)

\* C7 as stated: getProvider returns an adapter for every identifier: Gemini
\* for the case variants of "gemini", Groq for every other identifier, the
\* absent one included.
C7_TotalSelector ==
    ret.stage = "done" =>
        ret.out = IF arg.t = "string" /\ ToLowerCase(arg.v) = IdGemini
                  THEN "Gemini" ELSE "Groq"

-----------------------------------------------------------------------------
(* Properties of the diagram normalization, checked under SpecDiagram *)

\* C8: the cleaned text holds no fence, has no white space at either end and
\* is the trimmed raw text when the raw text holds no fence; it is accepted
\* exactly when it starts with "graph TD" or "graph LR". The fenced example
\* yields the plain diagram and the wrong-prefix example is rejected.
C8_DiagramNormalized ==
    ret.stage = "done" =>
        /\ ~Includes(ret.text, Fence)
        /\ ret.text = Trim(ret.text)
        /\ ~Includes(arg, Fence) => ret.text = Trim(arg)
        /\ ret.ok <=> (StartsWith(ret.text, GraphTD) \/ StartsWith(ret.text, GraphLR))
        /\ arg = DiagramFenced => (ret.text = DiagramPlain /\ ret.ok)
        /\ arg = DiagramWrongPrefix => ~ret.ok

\* C8, its case: a raw text with an opening and a closing fence was cleaned
\* and accepted.
C8_Witness ==
    /\ ret.stage = "done"
    /\ arg = DiagramFenced
    /\ ret.ok

-----------------------------------------------------------------------------
(* Properties of the analysis rendering, checked under SpecAnalysis *)

\* C10: a record that lacks one of the four required fields yields the error
\* page, never the report; the page carries the "Missing required properties"
\* message and the text as it was passed in (untrimmed, with < and > written
\* as entities).
C10_RejectedWholesale ==
    (ret.stage = "done" /\ arg.kind = "record" /\ arg.present # 1..4) =>
        /\ ret.page.doc = "error"
        /\ ret.page.message = MissingPropertiesMsg
        /\ ret.page.text = EscapeHtml(arg.text)
        /\ (~Includes(arg.text, <<"<">>) /\ ~Includes(arg.text, <<">">>))
              => ret.page.text = arg.text

\* C10, its case: a record with patterns, antiPatterns and recommendations
\* but without performance_metrics was rendered.
C10_Witness ==
    /\ ret.stage = "done"
    /\ arg.kind = "record"
    /\ arg.present = {1, 2, 3}

-----------------------------------------------------------------------------
(* Properties of the extension, checked under Spec *)

C9_InvalidNeverRendered ==
    /\ \A i \in 1..Len(reqs) :
          (/\ reqs[i].kind = "diagram"
           /\ reqs[i].stage = "done"
           /\ reqs[i].invoked = 1
           /\ ~StartsWith(sanitizeMermaid(reqs[i].result.text), GraphTD)
           /\ ~StartsWith(sanitizeMermaid(reqs[i].result.text), GraphLR)) =>
              /\ \E n \in 1..Len(notifications) :
                    notifications[n] = Notice(i, "error", "InvalidMermaid", <<>>)
              /\ \A k \in 1..Len(panels) :
                    panels[k].req = i => panels[k].html = NoPage
    /\ \A k \in 1..Len(panels) :
          panels[k].html.doc = "mermaid" =>
              StartsWith(panels[k].html.text, GraphTD)
              \/ StartsWith(panels[k].html.text, GraphLR)

\* C9, its case: the model answered the generate-diagram command with a
\* sentence followed by a valid diagram.
C9_Witness ==
    \E i \in 1..Len(reqs) :
        /\ reqs[i].kind = "diagram"
        /\ reqs[i].stage = "done"
        /\ reqs[i].result = Success(DiagramLate)

\* C11: whenever the model's answer to the detect-patterns command is no
\* usable analysis (the cleaned text is no JSON, or a required top-level
\* field is missing), the command opens a panel whose error page holds the
\* diagnostic and the answer's text.
C11_FormatErrorShowsRawText ==
    \A i \in 1..Len(reqs) :
        (/\ reqs[i].kind = "detect"
         /\ reqs[i].stage = "done"
         /\ reqs[i].result.tag = "success"
         /\ \/ IsThrown(analyzeCodePatterns(reqs[i].result.text))
            \/ missingRequired(JSONparse(cleanResponse(reqs[i].result.text)))) =>
            \E k \in 1..Len(panels) :
                /\ panels[k].req = i
                /\ panels[k].html.doc = "error"
                /\ panels[k].html.message # <<>>
                /\ panels[k].html.text = EscapeHtml(cleanResponse(reqs[i].result.text))

-----------------------------------------------------------------------------
(* SpecRoundTrip: a JSON document that holds the four required fields, bare *)
(* or inside a json fence, goes through analyzeCodePatterns and then        *)
(* through getPatternAnalysisWebviewContent, as in the detect command       *)

\* the documents: every one holds the four required fields. The name of the
\* pattern is plain, has a fence inside, has a fence followed by white space,
\* or has white space only.
Documents ==
    {<<"{">> \o Join(<<
        Member(RequiredFields[1],
               <<"[","{">> \o Member(<<"n","a","m","e">>, Quote(name)) \o <<",">>
               \o Member(<<"c","o","n","f","i","d","e","n","c","e">>, confidence)
               \o <<"}","]">>),
        Member(RequiredFields[2], antiPatterns),
        Member(RequiredFields[3], EmptyArray),
        Member(RequiredFields[4],
               <<"{">> \o Member(K_potential_bottlenecks, bottlenecks) \o <<"}">>)>>)
     \o <<"}">> :
        name \in {<<"O","b","s">>, <<"a",Tick,Tick,Tick,"b">>, <<Tick,Tick,Tick," ","c">>,
                  <<"x"," ","y">>},
        confidence \in {<<"1",".","5">>, <<"0",".","5","0">>, <<"2">>},
        antiPatterns \in FieldValues[2] \ {<<"[","n","u","l","l","]">>},
        bottlenecks \in {EmptyArray,
                         <<"[">> \o Quote(<<"b">>) \o <<",">> \o Quote(<<"a">>) \o <<"]">>}}

\* the model's answer that carries a document: bare, fenced, fenced on one
\* line with white space around, bare between blank lines
Wrapped(doc) ==
    {doc,
     FenceJson \o <<"\n">> \o doc \o <<"\n">> \o Fence,
     <<" ">> \o FenceJson \o doc \o Fence \o <<"\n">>,
     <<"\n","\n">> \o doc \o <<"\n","\n">>}

InitRoundTrip ==
    /\ ExtensionIdle
    /\ arg \in UNION {{[doc |-> doc, response |-> response] : response \in Wrapped(doc)} :
                        doc \in Documents}
    /\ ret = NotRun

\* line 214: getPatternAnalysisWebviewContent(analysisResult), unless
\* analyzeCodePatterns threw
Normalized(analysisResult) ==
    [stage |-> "done", analysisResult |-> analysisResult,
     page |-> IF IsThrown(analysisResult) THEN NoPage
              ELSE getPatternAnalysisWebviewContent(analysisResult.v)]

\* lines 591-603 and 610-618 applied to the model's answer
NormalizeAnalysis ==
    /\ ret.stage = "idle"
    /\ ret' = Normalized(analyzeCodePatterns(arg.response))
    /\ UNCHANGED <<arg, netCalls>>
    /\ ExtensionUnchanged

SpecRoundTrip == InitRoundTrip /\ [][NormalizeAnalysis]_vars

\* C12: the structure that normalization yields for a document with the four
\* required fields, bare or fenced, is the document's own value: the report
\* is built from a record equal to the parse of the source document, string
\* values with a fence inside included.
C12_RoundTripExact ==
    ret.stage = "done" =>
        /\ ~IsThrown(ret.analysisResult)
        /\ ret.page.doc = "report"
        /\ ret.page.analysis = JSONparse(arg.doc)

-----------------------------------------------------------------------------
(* SpecRepeat: the diagram clean-up and check, and the analysis clean-up   *)
(* and parse, applied to a model's answer and then to their own output     *)

\* lines 164-177 for a diagram text, lines 592-603 for an analysis text: the
\* cleaned text and whether it was accepted
Cleaned(kind, cleanedText, analysisResult) ==
    IF kind = "diagram"
    THEN [text |-> cleanedText, ok |-> isMermaid(cleanedText)]
    ELSE [text |-> IF IsThrown(analysisResult) THEN <<>> ELSE analysisResult.v,
          ok |-> ~IsThrown(analysisResult)]

Clean(kind, text) ==
    IF kind = "diagram"
    THEN Cleaned(kind, sanitizeMermaid(text), Undefined)
    ELSE Cleaned(kind, <<>>, analyzeCodePatterns(text))

InitRepeat ==
    /\ ExtensionIdle
    /\ arg \in {[kind |-> "diagram", text |-> text] :
                   text \in Concats(2) \cup {DiagramFenced, DiagramPlain,
                                             DiagramWrongPrefix, DiagramLate}}
          \cup {[kind |-> "analysis", text |-> text] :
                   text \in UNION {Wrapped(doc) : doc \in Documents}
                            \cup {AnalysisFenced, AnalysisNoMetrics, AnalysisMalformed}}
    /\ ret = NotRun

\* the clean-up and check of the model's answer
CleanFirst ==
    /\ ret.stage = "idle"
    /\ ret' = [stage |-> "once", first |-> Clean(arg.kind, arg.text), second |-> NoResult]
    /\ UNCHANGED <<arg, netCalls>>
    /\ ExtensionUnchanged

\* the same clean-up and check, given the text it accepted
CleanAgain ==
    /\ ret.stage = "once"
    /\ ret.first.ok
    /\ ret' = [ret EXCEPT !.stage = "twice",
                          !.second = Clean(arg.kind, ret.first.text)]
    /\ UNCHANGED <<arg, netCalls>>
    /\ ExtensionUnchanged

SpecRepeat == InitRepeat /\ [][CleanFirst \/ CleanAgain]_vars

\* C13: the diagram clean-up and check applied to a diagram text it accepted,
\* and the analysis clean-up and parse applied to an analysis text it
\* accepted, return that text unchanged and accept it again.
C13_Idempotent ==
    ret.stage = "twice" =>
        /\ ret.second.text = ret.first.text
        /\ ret.second.ok

\* C13, its case: a fenced diagram was cleaned, accepted, and cleaned and
\* checked a second time.
C13_Witness ==
    /\ ret.stage = "twice"
    /\ arg.kind = "diagram"
    /\ arg.text = DiagramFenced
    /\ ret.first.text # arg.text

-----------------------------------------------------------------------------
(* Further properties of the extension, checked under Spec *)

\* C14: a generate-diagram or detect-patterns command run without an active
\* editor or with an empty selection shows one error notification and
\* nothing else happens, then or later, on its behalf: no provider is
\* selected, no adapter is invoked, no outbound call is issued, no panel is
\* created, and the chat panel reference is left alone.
C14_AbortWithoutEffects ==
    /\ [](\A i \in 1..Len(reqs) :
            reqs[i].stage = "aborted" =>
                /\ reqs[i].kind \in {"diagram", "detect"}
                /\ reqs[i].adapter = "none"
                /\ reqs[i].invoked = 0
                /\ reqs[i].calls = 0
                /\ reqs[i].outcome = NoOutcome
                /\ Cardinality({n \in 1..Len(notifications) : notifications[n].req = i}) = 1
                /\ \A n \in 1..Len(notifications) :
                      notifications[n].req = i =>
                          /\ notifications[n].level = "error"
                          /\ notifications[n].id \in {"NoEditor", "NoSelection"}
                /\ \A k \in 1..Len(panels) : panels[k].req # i)
    /\ [][(/\ Len(reqs') = Len(reqs) + 1
           /\ reqs'[Len(reqs')].stage = "aborted") =>
              /\ panels' = panels
              /\ panel' = panel
              /\ netCalls' = netCalls
              /\ SubSeq(reqs', 1, Len(reqs)) = reqs
              /\ Len(notifications') = Len(notifications) + 1
              /\ SubSeq(notifications', 1, Len(notifications)) = notifications]_vars

\* C14, its case: the detect-patterns command was run with an empty
\* selection, and a later generate-diagram command ran to its end.
C14_Witness ==
    /\ Len(reqs) = 2
    /\ reqs[1].kind = "detect"
    /\ reqs[1].stage = "aborted"
    /\ notifications[1] = Notice(1, "error", "NoSelection", <<>>)
    /\ reqs[2].kind = "diagram"
    /\ reqs[2].stage = "done"
    /\ reqs[2].calls = 1

\* C15: at most one chat panel is live at a time and the stored reference is
\* undefined exactly when none is live, else it is that panel; a chat panel
\* is created only by a step taken while the reference is undefined, which
\* creates exactly one panel and stores it; the disposal of the chat panel
\* clears the reference and a disposed panel stays disposed.
C15_OneChatPanel ==
    /\ [](/\ Cardinality({k \in 1..Len(panels) :
                             panels[k].viewType = "codeChat" /\ panels[k].live}) <= 1
          /\ panel = 0 <=>
                ~\E k \in 1..Len(panels) : panels[k].viewType = "codeChat" /\ panels[k].live
          /\ panel # 0 =>
                /\ panel \in 1..Len(panels)
                /\ panels[panel].viewType = "codeChat"
                /\ panels[panel].live)
    /\ [][/\ (\E k \in 1..Len(panels') :
                 /\ panels'[k].viewType = "codeChat"
                 /\ k > Len(panels)) =>
                    /\ panel = 0
                    /\ panels' = Append(panels, NewPanel("codeChat", 0, ChatPage))
                    /\ panel' = Len(panels')
          /\ \A k \in 1..Len(panels) :
                /\ k <= Len(panels')
                /\ panels'[k].viewType = panels[k].viewType
                /\ ~panels[k].live => ~panels'[k].live
                /\ panels'[k].live # panels[k].live =>
                      panels[k].viewType = "codeChat" /\ panel = k /\ panel' = 0]_vars

\* C15, its case: the chat panel was opened, disposed of, and opened again.
C15_Witness ==
    /\ Len(panels) >= 2
    /\ panels[1].viewType = "codeChat"
    /\ ~panels[1].live
    /\ panel # 0
    /\ panel # 1
    /\ panels[panel].live

\* C16: whenever a request was fired while an earlier one was still waiting
\* for its outbound call, and has completed its own call while the earlier
\* one still waits, exactly one render event was delivered for it: one
\* receiveMessage posted to a chat panel for a chat message, one panel for a
\* diagram or analysis command.
C16_EachCompletionRenders ==
    \A i \in 1..Len(reqs) : \A j \in 1..(i - 1) :
        (/\ reqs[j].stage = "await"
         /\ reqs[i].stage = "done"
         /\ reqs[i].calls = 1) =>
            IF reqs[i].kind = "chat"
            THEN Cardinality({km \in (1..Len(panels)) \X (1..MaxReq) :
                                /\ km[2] <= Len(panels[km[1]].posted)
                                /\ panels[km[1]].posted[km[2]].req = i}) = 1
            ELSE Cardinality({k \in 1..Len(panels) : panels[k].req = i}) = 1

-----------------------------------------------------------------------------
(* Properties of the extension when the identifier may be no string, *)
(* checked under SpecAnyId                                            *)

\* C17: no handler ends with its promise rejected, and every chat message or
\* command that ran into a failure (the selector threw, the adapter returned
\* a Failure text, the answer was no diagram or no usable analysis) has
\* ended with a message the user can see: a receiveMessage posted for it, an
\* error notification shown for it, or an error page in a panel opened for it.
C17_EveryFailureVisible ==
    \A i \in 1..Len(reqs) :
        /\ reqs[i].stage # "failed"
        /\ (/\ reqs[i].stage = "done"
            /\ \/ reqs[i].invoked = 0
               \/ reqs[i].result.tag # "success"
               \/ reqs[i].kind = "diagram" /\ ~isMermaid(sanitizeMermaid(reqs[i].result.text))
               \/ /\ reqs[i].kind = "detect"
                  /\ \/ IsThrown(analyzeCodePatterns(reqs[i].result.text))
                     \/ missingRequired(JSONparse(cleanResponse(reqs[i].result.text)))) =>
              \/ \E k \in 1..Len(panels) : \E m \in 1..Len(panels[k].posted) :
                    panels[k].posted[m].req = i
              \/ \E n \in 1..Len(notifications) :
                    notifications[n].req = i /\ notifications[n].level = "error"
              \/ \E k \in 1..Len(panels) : panels[k].req = i /\ panels[k].html.doc = "error"

-----------------------------------------------------------------------------
(* SpecRequest: the adapter and the model id of the outbound request of a  *)
(* user action, for every activeModel setting and every chat message       *)

\* RequestOf for a chat handler that reads the activeModel setting as the
\* commands do
RequestOf_settings(kind, activeModel, message) ==
    [adapter |-> getProvider(activeModel),
     model |-> ModelOrDefault(getProvider(activeModel), Undefined)]

\* lines 99-102 for a chat message: getProvider(provider), then
\* generateResponse(prompt, model); lines 134-150 and 206-211 for a command:
\* getProvider(get('activeModel', 'groq')), then generateResponse(prompt)
RequestOf(kind, activeModel, message) ==
    IF kind = "chat"
    THEN [adapter |-> getProvider(message.provider),
          model |-> ModelOrDefault(getProvider(message.provider), message.model)]
    ELSE [adapter |-> getProvider(activeModel),
          model |-> ModelOrDefault(getProvider(activeModel), Undefined)]

\* the handler of a user action builds its request
BuildRequest ==
    /\ ret.stage = "idle"
    /\ ret' = [stage |-> "done",
               request |-> RequestOf(arg.kind, arg.activeModel, arg.message)]
    /\ UNCHANGED <<arg, netCalls>>
    /\ ExtensionUnchanged

\* a chat message carries a provider of the page and one of its models, or no
\* model
InitRequest ==
    /\ ExtensionIdle
    /\ arg \in UNION {[kind : {"chat", "diagram", "detect"},
                       activeModel : {Str(id) : id \in ActiveModels},
                       message : [provider : {Str(provider)},
                                  model : ChatModels(provider) \cup {Undefined}]] :
                      provider \in ChatProviders}
    /\ ret = NotRun

SpecRequest == InitRequest /\ [][BuildRequest]_vars

\* C18: without a model id the Groq adapter sends 'llama-3.1-8b-instant' and
\* the Gemini adapter 'gemini-1.5-pro'. A generate-diagram or detect-patterns
\* command takes the activeModel setting, and nothing of a chat message, for
\* its request: the setting selects the adapter (Gemini for 'gemini' in any
\* case, Groq otherwise) and the request carries that adapter's default
\* model. A chat message takes the provider and the model id it carries, and
\* nothing of the setting.
C18_RequestSources ==
    ret.stage = "done" =>
        /\ ret.request.adapter =
              IF ToLowerCase((IF arg.kind = "chat" THEN arg.message.provider
                              ELSE arg.activeModel).v) = <<"g","e","m","i","n","i">>
              THEN "Gemini" ELSE "Groq"
        /\ ret.request.model =
              IF arg.kind = "chat" /\ arg.message.model # Undefined
              THEN arg.message.model
              ELSE IF ret.request.adapter = "Groq"
                   THEN Str(<<"l","l","a","m","a","-","3",".","1","-","8","b","-",
                              "i","n","s","t","a","n","t">>)
                   ELSE Str(<<"g","e","m","i","n","i","-","1",".","5","-","p","r","o">>)

\* C18, its case: the setting names Gemini, the chat page has Groq selected
\* with a model of its own, and the generate-diagram command built its
\* request.
C18_Witness ==
    /\ ret.stage = "done"
    /\ arg.kind = "diagram"
    /\ arg.activeModel = Str(<<"G","e","m","i","n","i">>)
    /\ arg.message.provider = Str(IdGroq)
    /\ arg.message.model = Str(<<"g","e","m","m","a","2","-","9","b","-","i","t">>)
    /\ ret.request.adapter = "Gemini"

-----------------------------------------------------------------------------
(* Further properties of the analysis rendering, checked under SpecAnalysis *)

\* C19: a record that holds the four required fields is rendered as the
\* report, built from the values as parsed, whatever its confidence,
\* severity, complexity and performance_impact hold: a confidence of 1.5
\* stays 1.5 and the strings "dire", "extreme" and "none" stay as they are.
\* Such a record is rejected only for a value of the wrong type: patterns
\* that are a string, antiPatterns that hold null, recommendations of null,
\* performance_metrics without potential_bottlenecks.
C19_NoRangeChecks ==
    (/\ ret.stage = "done"
     /\ arg.kind = "record"
     /\ arg.present = 1..4
     /\ ~Includes(arg.text, Member(RequiredFields[1], Quote(<<"m","a","n","y">>)))
     /\ ~Includes(arg.text, Member(RequiredFields[2], <<"[","n","u","l","l","]">>))
     /\ ~Includes(arg.text, Member(RequiredFields[3], <<"n","u","l","l">>))
     /\ ~Includes(arg.text, Member(RequiredFields[4], <<"{","}">>))) =>
        /\ ret.page.doc = "report"
        /\ ret.page.analysis = JSONparse(arg.text)
        /\ Includes(arg.text, <<"1",".","5">>) =>
              Get(Index0(Get(ret.page.analysis, RequiredFields[1])),
                  <<"c","o","n","f","i","d","e","n","c","e">>) = Num(15, 1)
        /\ Includes(arg.text, <<"d","i","r","e">>) =>
              Get(Index0(Get(ret.page.analysis, RequiredFields[2])),
                  <<"s","e","v","e","r","i","t","y">>) = Str(<<"d","i","r","e">>)
        /\ Includes(arg.text, <<"e","x","t","r","e","m","e">>) =>
              /\ Get(Index0(Get(ret.page.analysis, RequiredFields[3])),
                     <<"c","o","m","p","l","e","x","i","t","y">>)
                    = Str(<<"e","x","t","r","e","m","e">>)
              /\ Get(Index0(Get(ret.page.analysis, RequiredFields[3])),
                     <<"p","e","r","f","o","r","m","a","n","c","e","_","i","m","p","a","c","t">>)
                    = Str(<<"n","o","n","e">>)

\* C19, its case: a record with a confidence of 1.5, a severity "dire" and a
\* complexity "extreme" was rendered.
C19_Witness ==
    /\ ret.stage = "done"
    /\ arg.kind = "record"
    /\ arg.present = 1..4
    /\ Includes(arg.text, <<"1",".","5">>)
    /\ Includes(arg.text, <<"d","i","r","e">>)
    /\ Includes(arg.text, <<"e","x","t","r","e","m","e">>)
    /\ ret.page.doc = "report"

-----------------------------------------------------------------------------
(* Further properties of the selector, checked under SpecFactory *)

\* C20: the identifiers of the OpenAI provider, 'gpt' and 'openai', are
\* routed to an adapter of their own, not to the Groq or the Gemini adapter
\* (and the selector does not throw).
C20_GptOwnAdapter ==
    (/\ ret.stage = "done"
     /\ arg \in {Str(<<"g","p","t">>), Str(<<"o","p","e","n","a","i">>)}) =>
        ret.out \notin {"Groq", "Gemini", "TypeError"}

-----------------------------------------------------------------------------
(* Properties of the extension when every outbound call settles, checked *)
(* under SpecLive                                                        *)

\* C21: a generate-diagram or detect-patterns command that waits for its
\* outbound call ends, once the call has settled, with exactly one of: a
\* panel that holds a page, an error notification. A request that waits has
\* delivered neither; a request that issued a call is done only when the call
\* has resolved or failed; and while a request waits, no step changes it
\* except the settling of its own call, which ends it.
C21_TerminatesWhenSettled ==
    /\ \A i \in 1..MaxReq :
          (i <= Len(reqs) /\ reqs[i].stage = "await" /\ reqs[i].kind # "chat")
             ~> (/\ i <= Len(reqs)
                 /\ reqs[i].stage = "done"
                 /\ (\E k \in 1..Len(panels) : panels[k].req = i /\ panels[k].html # NoPage)
                       # (\E n \in 1..Len(notifications) :
                             notifications[n].req = i /\ notifications[n].level = "error"))
    /\ [](\A i \in 1..Len(reqs) :
             /\ reqs[i].stage = "await" =>
                   /\ reqs[i].outcome = NoOutcome
                   /\ \A k \in 1..Len(panels) : panels[k].req # i
                   /\ \A n \in 1..Len(notifications) :
                         notifications[n].req = i => notifications[n].level # "error"
             /\ (reqs[i].stage = "done" /\ reqs[i].calls = 1) =>
                   reqs[i].outcome.k \in {"resolve", "reject"})
    /\ [][\A i \in 1..Len(reqs) :
             reqs[i].stage = "await" =>
                \/ reqs'[i] = reqs[i]
                \/ /\ reqs'[i].stage = "done"
                   /\ reqs'[i].outcome.k \in {"resolve", "reject"}
                   /\ reqs'[i] = [reqs[i] EXCEPT !.stage = "done",
                                                 !.outcome = reqs'[i].outcome,
                                                 !.result = reqs'[i].result]]_vars

\* C21, its case: a detect-patterns command issued its call, the chat panel
\* was opened and closed, the call was rejected, and the command has ended
\* with its error notification.
C21_Witness ==
    /\ Len(reqs) >= 1
    /\ reqs[1].kind = "detect"
    /\ reqs[1].stage = "done"
    /\ reqs[1].outcome.k = "reject"
    /\ Len(panels) = 1
    /\ panels[1].viewType = "codeChat"
    /\ ~panels[1].live
    /\ \E n \in 1..Len(notifications) :
          notifications[n].req = 1 /\ notifications[n].level = "error"

-----------------------------------------------------------------------------
(* Further properties of the chat, checked under Spec *)

\* C22: every receiveMessage a chat panel was posted is the reply to a
\* message that this panel's webview sent.
C22_ReplyToOriginOnly ==
    \A k \in 1..Len(panels) : \A m \in 1..Len(panels[k].posted) :
        reqs[panels[k].posted[m].req].origin = k

-----------------------------------------------------------------------------
(* Further properties of the adapters, checked under SpecAdapter *)

\* C23: no Failure text an adapter returns (missing key, error of the
\* outbound call with whatever message, unknown error) passes for a result:
\* cleaned as a diagram it does not start with "graph TD" or "graph LR", and
\* analyzeCodePatterns throws on it, so that neither command builds a page
\* from it.
C23_FailureNeverRendered ==
    (ret.stage = "done" /\ ret.result.tag = "failure") =>
        /\ ~StartsWith(sanitizeMermaid(ret.result.text), GraphTD)
        /\ ~StartsWith(sanitizeMermaid(ret.result.text), GraphLR)
        /\ ~isMermaid(sanitizeMermaid(ret.result.text))
        /\ IsThrown(analyzeCodePatterns(ret.result.text))
        /\ FinishDiagram(1, ret.result, <<>>, <<>>).panels[1].html = NoPage
        /\ FinishDetect(1, ret.result, <<>>, <<>>).panels = <<>>

\* C23, its case: the Groq call failed with an HTTP error whose body carries
\* a diagram as the provider's error message.
C23_Witness ==
    /\ ret.stage = "done"
    /\ ret.result.tag = "failure"
    /\ Includes(ret.result.text, DiagramPlain)

\* C24: whatever text getPatternAnalysisWebviewContent is given, it returns a
\* page and throws nothing: the report exactly when the text is a record
\* that holds the four required fields with values the template can render
\* (patterns, antiPatterns and recommendations arrays without null elements,
\* performance_metrics with potential_bottlenecks), then built from the
\* record as parsed; in every other case the error page, with a message and
\* the text it was given.
C24_AlwaysAPage ==
    ret.stage = "done" =>
        IF "doc" \notin DOMAIN ret.page THEN FALSE
        ELSE /\ ret.page.doc \in {"report", "error"}
             /\ ret.page.doc = "report" <=>
                   /\ arg.kind = "record"
                   /\ arg.present = 1..4
                   /\ ~Includes(arg.text, Member(RequiredFields[1], Quote(<<"m","a","n","y">>)))
                   /\ ~Includes(arg.text, Member(RequiredFields[2], <<"[","n","u","l","l","]">>))
                   /\ ~Includes(arg.text, Member(RequiredFields[3], <<"n","u","l","l">>))
                   /\ ~Includes(arg.text, Member(RequiredFields[4], <<"{","}">>))
             /\ ret.page.doc = "report" =>
                   /\ ret.page.analysis = JSONparse(arg.text)
                   /\ \A i \in 1..3 : Get(ret.page.analysis, RequiredFields[i]).t = "array"
             /\ ret.page.doc = "error" =>
                   /\ ret.page.message # <<>>
                   /\ ret.page.text = EscapeHtml(arg.text)

\* C24, its case: a record whose patterns are a string, with the other three
\* fields in order, was rendered.
C24_Witness ==
    /\ ret.stage = "done"
    /\ arg.kind = "record"
    /\ arg.present = 1..4
    /\ Includes(arg.text, Member(RequiredFields[1], Quote(<<"m","a","n","y">>)))
    /\ ~Includes(arg.text, <<"n","u","l","l">>)
    /\ ~Includes(arg.text, Member(RequiredFields[4], <<"{","}">>))
    /\ ret.page.doc = "error"

-----------------------------------------------------------------------------
(* Further properties of the generate-diagram command, checked under Spec *)

\* C25: a generate-diagram command that passed its preconditions creates its
\* panel once, when its adapter call has returned and before the text is
\* validated: while the command waits for its call there is no panel of it;
\* once it has ended there is exactly one, of type workflowDiagram; when the
\* sanitized text is no diagram that panel holds no page and the invalid-syntax
\* error is shown, otherwise it holds the diagram page of the sanitized text.
\* A command stopped at a precondition has no panel, and the panel is created
\* in the very step in which the command runs on from its adapter call.
C25_PanelBeforeValidation ==
    /\ [](\A i \in 1..Len(reqs) :
             LET made == {k \in 1..Len(panels) : panels[k].req = i}
                 invalid == {n \in 1..Len(notifications) :
                                notifications[n] = Notice(i, "error", "InvalidMermaid", <<>>)}
             IN reqs[i].kind = "diagram" =>
                   /\ reqs[i].stage \in {"aborted", "await"} => made = {}
                   /\ reqs[i].stage \notin {"aborted", "await"} =>
                         /\ reqs[i].stage = "done"
                         /\ Cardinality(made) = 1
                         /\ \A k \in made :
                               /\ panels[k].viewType = "workflowDiagram"
                               /\ panels[k].posted = <<>>
                               /\ IF isMermaid(sanitizeMermaid(reqs[i].result.text))
                                  THEN /\ panels[k].html =
                                             getWebviewContentWithMermaid(
                                                sanitizeMermaid(reqs[i].result.text))
                                       /\ invalid = {}
                                  ELSE /\ panels[k].html = NoPage
                                       /\ Cardinality(invalid) = 1)
    /\ [][\A i \in 1..MaxReq :
            (/\ i <= Len(reqs')
             /\ reqs'[i].kind = "diagram"
             /\ \E k \in 1..Len(panels') : panels'[k].req = i /\ k > Len(panels)) =>
                /\ \A k \in 1..Len(panels) : panels[k].req # i
                /\ Len(panels') = Len(panels) + 1
                /\ reqs'[i].stage = "done"
                /\ i > Len(reqs) \/ reqs[i].stage = "await"]_vars

\* C25, its case: a generate-diagram command has issued its call, the model
\* answered with a text that is no diagram after sanitizing, and the command
\* has ended with the error shown and its one panel left blank.
C25_Witness ==
    /\ Len(reqs) >= 1
    /\ reqs[1].kind = "diagram"
    /\ reqs[1].stage = "done"
    /\ reqs[1].calls = 1
    /\ reqs[1].outcome.k = "resolve"
    /\ reqs[1].result.text = DiagramLate
    /\ Len(panels) = 1
    /\ panels[1] = NewPanel("workflowDiagram", 1, NoPage)
    /\ \E n \in 1..Len(notifications) :
          notifications[n] = Notice(1, "error", "InvalidMermaid", <<>>)

-----------------------------------------------------------------------------
(* Further properties of the chat replies, checked under Spec *)

\* C27: no receiveMessage posted to a chat panel has an empty text: the reply
\* to a chat message carries the adapter's text, or the sentence "Sorry, I
\* couldn't get a response." when that text is empty. No chat message is
\* replied to before its call has returned or more than once, and a chat
\* message whose panel is still open when its handler has ended was replied
\* to exactly once, on that panel.
C27_ReplyNeverEmpty ==
    /\ \A k \in 1..Len(panels) : \A m \in 1..Len(panels[k].posted) :
          /\ panels[k].posted[m].text # <<>>
          /\ panels[k].posted[m].req \in 1..Len(reqs)
          /\ reqs[panels[k].posted[m].req].kind = "chat"
          /\ reqs[panels[k].posted[m].req].stage = "done"
          /\ panels[k].posted[m].text =
                IF reqs[panels[k].posted[m].req].result.text = <<>>
                THEN SorryText
                ELSE reqs[panels[k].posted[m].req].result.text
    /\ \A i \in 1..Len(reqs) :
          /\ Cardinality({km \in (1..Len(panels)) \X (1..(2 * MaxReq)) :
                            /\ km[2] <= Len(panels[km[1]].posted)
                            /\ panels[km[1]].posted[km[2]].req = i}) <= 1
          /\ (reqs[i].kind = "chat" /\ reqs[i].stage \notin {"await", "aborted"}
                 /\ panels[reqs[i].origin].live) =>
                /\ reqs[i].stage = "done"
                /\ Cardinality({m \in 1..Len(panels[reqs[i].origin].posted) :
                                  panels[reqs[i].origin].posted[m].req = i}) = 1

\* C27, its case: a chat message went to the Gemini adapter, the call
\* resolved with the empty text, and the panel, still open, was posted the
\* substitute sentence.
C27_Witness ==
    /\ Len(reqs) >= 1
    /\ reqs[1].kind = "chat"
    /\ reqs[1].stage = "done"
    /\ reqs[1].outcome.k = "resolve"
    /\ reqs[1].result.tag = "success"
    /\ reqs[1].result.text = <<>>
    /\ panels[reqs[1].origin].live
    /\ panels[reqs[1].origin].posted = <<[req |-> 1, text |-> SorryText]>>

-----------------------------------------------------------------------------
(* SpecWebview: the script of the chat page. arg is the page: the value of *)
(* the provider select, the options of the model select and its value, the *)
(* text of the prompt input; ret is the sequence of messages the page has  *)
(* posted to the extension.                                                *)

\* updateModelOptions without modelSelect.innerHTML = '': the options of the
\* selected provider are added to those already listed, and the select keeps
\* its value when it had one
updateModelOptions_keep(page) ==
    [page EXCEPT !.options = @ \o models(page.provider),
                 !.model = IF page.options = <<>> THEN models(page.provider)[1]
                           ELSE @]

\* updateModelOptions (lines 423-432): the model select is emptied and gets
\* one option per model of the provider select's value; a select whose
\* options were replaced has the first of them as its value
updateModelOptions(page) ==
    [page EXCEPT !.options = models(page.provider),
                 !.model = models(page.provider)[1]]

\* the page once its script has run: the first provider option is selected,
\* updateModelOptions() has populated the models (line 437), the input is empty
InitWebview ==
    /\ ExtensionIdle
    /\ arg = updateModelOptions([provider |-> IdGroq, options |-> <<>>,
                                 model |-> Undefined, input |-> <<>>])
    /\ ret = <<>>

\* the user picks another provider: the change listener of line 434
ChangeProvider ==
    /\ \E provider \in ChatProviders \ {arg.provider} :
          arg' = updateModelOptions([arg EXCEPT !.provider = provider])
    /\ UNCHANGED <<panel, panels, notifications, reqs, netCalls, ret>>

\* the user picks one of the listed models
ChangeModel ==
    /\ \E n \in 1..Len(arg.options) :
          /\ arg.options[n] # arg.model
          /\ arg' = [arg EXCEPT !.model = arg.options[n]]
    /\ UNCHANGED <<panel, panels, notifications, reqs, netCalls, ret>>

\* the user edits the prompt input
TypePrompt ==
    /\ \E text \in {<<>>, <<" ">>, <<"h","i">>} :
          /\ text # arg.input
          /\ arg' = [arg EXCEPT !.input = text]
    /\ UNCHANGED <<panel, panels, notifications, reqs, netCalls, ret>>

\* handleSend (lines 451-463): the send button or the Enter key
handleSend ==
    /\ Len(ret) < MaxPosts
    /\ IF Truthy(Str(arg.input))
       THEN /\ ret' = Append(ret, [command |-> "sendMessage",
                                   prompt |-> arg.input,
                                   provider |-> arg.provider,
                                   model |-> arg.model])
            /\ arg' = [arg EXCEPT !.input = <<>>]
       ELSE UNCHANGED <<arg, ret>>
    /\ UNCHANGED <<panel, panels, notifications, reqs, netCalls>>

SpecWebview ==
    InitWebview /\ [][ChangeProvider \/ ChangeModel \/ TypePrompt \/ handleSend]_vars

\* C26: in the chat page the model select lists exactly the models of the
\* provider select's value, in the order of the models object, and its value
\* is one of them, from the start and after every change of the provider.
\* Every message the page posted is a sendMessage with a non-empty prompt
\* whose model id is one of the models of the provider id of the same
\* message; and a send while the prompt input is empty posts nothing.
C26_ModelOfSelectedProvider ==
    /\ [](/\ arg.provider \in ChatProviders
          /\ arg.options = models(arg.provider)
          /\ arg.model \in ChatModels(arg.provider)
          /\ \A m \in 1..Len(ret) :
                /\ ret[m].command = "sendMessage"
                /\ ret[m].provider \in ChatProviders
                /\ ret[m].model \in ChatModels(ret[m].provider)
                /\ ret[m].prompt # <<>>)
    /\ [][(arg.input = <<>> => ret' = ret)
          /\ (arg'.provider # arg.provider =>
                 /\ arg'.options = models(arg'.provider)
                 /\ arg'.model \in ChatModels(arg'.provider))]_vars

\* C26, its case: the user picked the Gemini provider and its second model,
\* sent a prompt, switched back to Groq and sent another prompt: both
\* messages carry the provider and the model selected when they were sent.
C26_Witness ==
    /\ Len(ret) = 2
    /\ ret[1].provider = IdGemini
    /\ ret[1].model = models(IdGemini)[2]
    /\ ret[2].provider = IdGroq
    /\ ret[2].model = models(IdGroq)[1]
    /\ arg.provider = IdGroq
    /\ arg.options = models(IdGroq)
    /\ arg.input = <<>>

=============================================================================
